---- MODULE Spec2Model ----
(***************************************************************************)
(* PsicoMetric (WISC-V): the score-conversion pipeline.                    *)
(*   - WISCConverter   (core/converter.py): age band resolution and the    *)
(*     raw -> scaled lookup over the loaded JSON data.                     *)
(*   - ConversorCompuestos (main.py): scaled-sum -> composite lookup with  *)
(*     interpolation and extrapolation.                                    *)
(* Python strings are modelled as tuples of one-character strings, so that *)
(* split(), int() and the substring test are computed, not assumed.        *)
(***************************************************************************)
EXTENDS Integers, Sequences, FiniteSets, TLC

VARIABLES data, ult_edad, ult_puntaje, tablas_compuestos, ult_compuesto, ant_compuesto,
          tabla_cit, ult_cit,
          conversor, edad_calculada, nombre_entry, nivel_confianza, entradas, etiquetas,
          filas_compuestos, resultados_actuales, mensajes, ult_op, ediciones,
          pacientes, evaluaciones, reloj, ult_bd, ant_bd, conexiones,
          archivos, fase, TABLAS_WISCV,
          SKLEARN_AVAILABLE, pares, predictor, corrida, ult_ia,
          paciente_actual, fecha_var, edad_desde_limpieza

convVars == <<data, ult_edad, ult_puntaje>>
compVars == <<tablas_compuestos, ult_compuesto, ant_compuesto>>
citVars == <<tabla_cit, ult_cit>>
\* the parts of the application the converters WISCConverter and
\* ConversorCompuestos never touch
\* the form of WiscVApp: the module-level conversor (None when its import
\* failed), the calculated age, the patient's name, the confidence level, the
\* raw-score entries and scaled-score labels of entries_puntajes, the rows of
\* labels_resultados_compuestos, resultados_actuales, and the message boxes
\* shown by the handler that ran last (ult_op), and the number of entries the
\* user has cleared
appVars == <<conversor, edad_calculada, nombre_entry, nivel_confianza, entradas, etiquetas,
             filas_compuestos, resultados_actuales, mensajes, ult_op, ediciones>>
\* the SQLite store of DatabaseManager: the rows of the tables pacientes and
\* evaluaciones by primary key, the clock behind CURRENT_TIMESTAMP, the last
\* call made to the manager with what it returned, and the store that call
\* was made on
bdVars == <<pacientes, evaluaciones, reloj, ult_bd, ant_bd, conexiones>>
\* the start of the program: the files it finds on disk, how far main.py has
\* got, and the module-level TABLAS_WISCV of data/tablas_wiscv.py
arrVars == <<archivos, fase, TABLAS_WISCV>>
\* PredictorEvolucionWISC: whether scikit-learn was imported, the number of
\* pairs of consecutive evaluations the store yields, the predictor's fields,
\* the last run of entrenar_modelos (its outcome and the pairs it saw), and
\* the last call made to the predictor
iaVars == <<SKLEARN_AVAILABLE, pares, predictor, corrida, ult_ia>>
\* the patient selected in WiscVApp, the birth date in the fields of the
\* form, and whether an age was calculated since the form was last cleared
guardarVars == <<paciente_actual, fecha_var, edad_desde_limpieza>>
otrosVars == <<citVars, appVars, bdVars, arrVars, iaVars, guardarVars>>
vars == <<convVars, compVars, otrosVars>>

(***************************************************************************)
(* Bounds of the model.                                                    *)
(***************************************************************************)
\* years tried below the first band and above the last one
AniosExtra == 1
\* entries of the form that differ from the others when the form is opened
MaxVariadas == 1
\* entries the user clears between two calculations
MaxEdiciones == 1
\* writes made to the store after it is opened
MaxOperaciones == 2
\* highest raw score asked of the tables of data/tablas_wiscv.py
MaxBrutoTablas == 59
\* the most pairs of consecutive evaluations the store yields
MaxPares == 11
\* the most calls that write to the store made from the form
MaxGuardadas == 1
\* months part of an age runs over 0..MaxMeses (12 is not a calendar month
\* but 'Y:12' is a string the converter accepts)
MaxMeses == 12
\* rows of a raw-to-scaled table
MaxFilas == 2
\* raw values written in the cells of a table are 1..MaxCelda
MaxCelda == 2
\* rows of a composite table
MaxFilasComp == 3
\* the sums tabulated in a composite table are taken from 1..MaxSuma
MaxSuma == 4
\* scaled sums asked for run over 0..MaxSuma + ExtraSuma
ExtraSuma == 1

(***************************************************************************)
(* Python values.                                                          *)
(***************************************************************************)
\* the value None
None == <<"None">>

Min2(a, b) == IF a <= b THEN a ELSE b
Max2(a, b) == IF a >= b THEN a ELSE b

Digitos == <<"0", "1", "2", "3", "4", "5", "6", "7", "8", "9">>

EsDigito(c) == \E d \in 1..10 : Digitos[d] = c

ValorDigito(c) == (CHOOSE d \in 1..10 : Digitos[d] = c) - 1

\* str(n) for an integer n
RECURSIVE StrNat(_)
StrNat(n) == IF n < 10 THEN <<Digitos[n + 1]>>
             ELSE Append(StrNat(n \div 10), Digitos[(n % 10) + 1])

Str(n) == IF n < 0 THEN <<"-">> \o StrNat(0 - n) ELSE StrNat(n)

\* s.split(sep): the pieces of s between the occurrences of the character sep
RECURSIVE Split(_, _)
Split(s, sep) ==
    IF \A i \in 1..Len(s) : s[i] # sep THEN <<s>>
    ELSE LET p == CHOOSE i \in 1..Len(s) : s[i] = sep /\ \A j \in 1..(i - 1) : s[j] # sep
         IN  <<SubSeq(s, 1, p - 1)>> \o Split(SubSeq(s, p + 1, Len(s)), sep)

\* value of a non-empty run of digits
RECURSIVE ValorNat(_)
ValorNat(s) == IF Len(s) = 0 THEN 0
               ELSE 10 * ValorNat(SubSeq(s, 1, Len(s) - 1)) + ValorDigito(s[Len(s)])

SoloDigitos(s) == Len(s) > 0 /\ \A i \in 1..Len(s) : EsDigito(s[i])

\* int(s) succeeds: an optional sign followed by digits
IntValido(s) ==
    IF Len(s) > 0 /\ s[1] = "-" THEN SoloDigitos(Tail(s)) ELSE SoloDigitos(s)

\* int(s), where it succeeds
IntDe(s) == IF s[1] = "-" THEN 0 - ValorNat(Tail(s)) ELSE ValorNat(s)

\* sub in s, for strings
Contiene(s, sub) ==
    \E i \in 0..(Len(s) - Len(sub)) : SubSeq(s, i + 1, i + Len(sub)) = sub

\* results of a call: a returned value or a raised exception
\* (val is the returned value; nulo stands in for it when the call raised, so
\* that the results of one operation keep one type)
Retorna(v) == [ok |-> TRUE, val |-> v, exc |-> "", msg |-> <<>>]
Lanza(e, m, nulo) == [ok |-> FALSE, val |-> nulo, exc |-> e, msg |-> m]

(***************************************************************************)
(* WISCConverter._convertir_edad_a_grupo                                   *)
(***************************************************************************)
Grupo(amin, mmin, amax, mmax, id) ==
    [anios_min |-> amin, meses_min |-> mmin, anios_max |-> amax, meses_max |-> mmax, grupo_id |-> id]

\* the band list with the second band starting at 6:7 instead of 6:6
grupos_typo == <<
    Grupo(6, 0, 6, 5, "6_0_6_5"),       Grupo(6, 7, 6, 11, "6_6_6_11"),
    Grupo(7, 0, 7, 5, "7_0_7_5"),       Grupo(7, 6, 7, 11, "7_6_7_11"),
    Grupo(8, 0, 8, 5, "8_0_8_5"),       Grupo(8, 6, 8, 11, "8_6_8_11"),
    Grupo(9, 0, 9, 5, "9_0_9_5"),       Grupo(9, 6, 9, 11, "9_6_9_11"),
    Grupo(10, 0, 10, 5, "10_0_10_5"),   Grupo(10, 6, 10, 11, "10_6_10_11"),
    Grupo(11, 0, 11, 5, "11_0_11_5"),   Grupo(11, 6, 11, 11, "11_6_11_11"),
    Grupo(12, 0, 12, 5, "12_0_12_5"),   Grupo(12, 6, 12, 11, "12_6_12_11"),
    Grupo(13, 0, 13, 5, "13_0_13_5"),   Grupo(13, 6, 13, 11, "13_6_13_11"),
    Grupo(14, 0, 14, 5, "14_0_14_5"),   Grupo(14, 6, 14, 11, "14_6_14_11"),
    Grupo(15, 0, 15, 5, "15_0_15_5"),   Grupo(15, 6, 15, 11, "15_6_15_11"),
    Grupo(16, 0, 16, 5, "16_0_16_5"),   Grupo(16, 6, 16, 11, "16_6_16_11") >>

grupos == <<
    Grupo(6, 0, 6, 5, "6_0_6_5"),       Grupo(6, 6, 6, 11, "6_6_6_11"),
    Grupo(7, 0, 7, 5, "7_0_7_5"),       Grupo(7, 6, 7, 11, "7_6_7_11"),
    Grupo(8, 0, 8, 5, "8_0_8_5"),       Grupo(8, 6, 8, 11, "8_6_8_11"),
    Grupo(9, 0, 9, 5, "9_0_9_5"),       Grupo(9, 6, 9, 11, "9_6_9_11"),
    Grupo(10, 0, 10, 5, "10_0_10_5"),   Grupo(10, 6, 10, 11, "10_6_10_11"),
    Grupo(11, 0, 11, 5, "11_0_11_5"),   Grupo(11, 6, 11, 11, "11_6_11_11"),
    Grupo(12, 0, 12, 5, "12_0_12_5"),   Grupo(12, 6, 12, 11, "12_6_12_11"),
    Grupo(13, 0, 13, 5, "13_0_13_5"),   Grupo(13, 6, 13, 11, "13_6_13_11"),
    Grupo(14, 0, 14, 5, "14_0_14_5"),   Grupo(14, 6, 14, 11, "14_6_14_11"),
    Grupo(15, 0, 15, 5, "15_0_15_5"),   Grupo(15, 6, 15, 11, "15_6_15_11"),
    Grupo(16, 0, 16, 5, "16_0_16_5"),   Grupo(16, 6, 16, 11, "16_6_16_11") >>

\* lines 78-82: the age, in months, lies in the band
EdadEnGrupo(edad_en_meses, g) ==
    LET min_en_meses == g.anios_min * 12 + g.meses_min
        max_en_meses == g.anios_max * 12 + g.meses_max
    IN  min_en_meses <= edad_en_meses /\ edad_en_meses <= max_en_meses

ErrorEdad(causa) == Lanza("ValueError", <<"Error al convertir edad", causa>>, "")

\* the scan falling back to the last band instead of raising
BuscarGrupo_ultimo(edad_en_meses, i) ==
    IF \E k \in i..Len(grupos) : EdadEnGrupo(edad_en_meses, grupos[k])
    THEN Retorna(grupos[CHOOSE k \in i..Len(grupos) :
                           /\ EdadEnGrupo(edad_en_meses, grupos[k])
                           /\ \A j \in i..(k - 1) : ~EdadEnGrupo(edad_en_meses, grupos[j])].grupo_id)
    ELSE Retorna(grupos[Len(grupos)].grupo_id)

\* the loop of lines 76-87, from band i on
RECURSIVE BuscarGrupo(_, _)
BuscarGrupo(edad_en_meses, i) ==
    IF i > Len(grupos) THEN ErrorEdad("fuera de rango valido (6:0 - 16:11)")
    ELSE IF EdadEnGrupo(edad_en_meses, grupos[i]) THEN Retorna(grupos[i].grupo_id)
    ELSE BuscarGrupo(edad_en_meses, i + 1)

convertir_edad_a_grupo(edad_formato) ==
    LET partes == Split(edad_formato, ":")
    IN  IF Len(partes) # 2 THEN ErrorEdad("formato")
        ELSE IF ~IntValido(partes[1]) \/ ~IntValido(partes[2]) THEN ErrorEdad("formato")
        ELSE BuscarGrupo(IntDe(partes[1]) * 12 + IntDe(partes[2]), 1)

(***************************************************************************)
(* WISCConverter._esta_en_rango                                            *)
(***************************************************************************)
\* the range test with an exclusive upper end
esta_en_rango_excl(puntaje, rango_str) ==
    IF rango_str = None \/ rango_str = <<>> \/ rango_str = <<"-">> THEN FALSE
    ELSE IF \E i \in 1..Len(rango_str) : rango_str[i] = "-"
    THEN LET partes == Split(rango_str, "-")
         IN  IF Len(partes) # 2 THEN FALSE
             ELSE IF ~IntValido(partes[1]) \/ ~IntValido(partes[2]) THEN FALSE
             ELSE IntDe(partes[1]) <= puntaje /\ puntaje < IntDe(partes[2])
    ELSE IF ~IntValido(rango_str) THEN FALSE
    ELSE puntaje = IntDe(rango_str)

esta_en_rango(puntaje, rango_str) ==
    IF rango_str = None \/ rango_str = <<>> \/ rango_str = <<"-">> THEN FALSE
    ELSE IF \E i \in 1..Len(rango_str) : rango_str[i] = "-"
    THEN LET partes == Split(rango_str, "-")
         IN  IF Len(partes) # 2 THEN FALSE
             ELSE IF ~IntValido(partes[1]) \/ ~IntValido(partes[2]) THEN FALSE
             ELSE IntDe(partes[1]) <= puntaje /\ puntaje <= IntDe(partes[2])
    ELSE IF ~IntValido(rango_str) THEN FALSE
    ELSE puntaje = IntDe(rango_str)

(***************************************************************************)
(* WISCConverter.convertir_puntaje                                         *)
(***************************************************************************)
\* fila.get(subprueba)
FilaGet(fila, subprueba) ==
    IF subprueba \in DOMAIN fila.celdas THEN fila.celdas[subprueba] ELSE None

ErrorPuntaje(e, m) == Lanza(e, m, 0)

\* the scan without the early return: the last matching row wins
BuscarEnTabla_ultima(tabla, i, subprueba, puntaje_bruto) ==
    LET hallados == {k \in i..Len(tabla) :
                        esta_en_rango(puntaje_bruto, FilaGet(tabla[k], subprueba))}
    IN  IF hallados = {} THEN ErrorPuntaje("ValueError", <<"Puntaje bruto fuera de rango">>)
        ELSE Retorna(tabla[CHOOSE k \in hallados : \A j \in hallados : j <= k].puntaje_escala)

\* lines 137-153: the rows are scanned in table order from row i on; the first
\* row whose cell contains the score returns
RECURSIVE BuscarEnTabla(_, _, _, _)
BuscarEnTabla(tabla, i, subprueba, puntaje_bruto) ==
    IF i > Len(tabla) THEN ErrorPuntaje("ValueError", <<"Puntaje bruto fuera de rango">>)
    ELSE IF esta_en_rango(puntaje_bruto, FilaGet(tabla[i], subprueba))
    THEN Retorna(tabla[i].puntaje_escala)
    ELSE BuscarEnTabla(tabla, i + 1, subprueba, puntaje_bruto)

\* the catalogue check without the 'INF' alias
SubpruebaEfectiva_sin_alias(d, subprueba) ==
    IF subprueba \in d.subpruebas THEN subprueba ELSE ""

\* lines 122-130: the subtest code looked up after the catalogue check
\* ("" when the check raises)
SubpruebaEfectiva(d, subprueba) ==
    IF subprueba \in d.subpruebas THEN subprueba
    ELSE IF subprueba = "INF" THEN "IN"
    ELSE ""

convertir_puntaje(d, edad_formato, subprueba, puntaje_bruto) ==
    LET g == convertir_edad_a_grupo(edad_formato)
        sub == SubpruebaEfectiva(d, subprueba)
    IN  IF ~g.ok THEN ErrorPuntaje(g.exc, g.msg)
        ELSE IF sub = "" THEN ErrorPuntaje("ValueError", <<"Subprueba no encontrada">>)
        ELSE IF g.val \notin DOMAIN d.grupos_etarios THEN ErrorPuntaje("KeyError", <<g.val>>)
        ELSE BuscarEnTabla(d.grupos_etarios[g.val].tabla, 1, sub, puntaje_bruto)

(***************************************************************************)
(* ConversorCompuestos.convertir_compuesto                                 *)
(* The float arithmetic of the code is evaluated exactly, as the rational  *)
(* num/den; round() is Python's round-half-to-even.  On the table values   *)
(* of this model the IEEE-754 double evaluation of lines 449-451, 466-472  *)
(* and 490-494 gives the same integers as the exact one.                   *)
(***************************************************************************)
\* floor(num / den) for den > 0
Piso(num, den) == num \div den

\* round(num / den), den # 0: to the nearest integer, ties to the even one
round(num, den) ==
    LET n == IF den < 0 THEN 0 - num ELSE num
        d == IF den < 0 THEN 0 - den ELSE den
        f == Piso(n, d)
        r == n - f * d
    IN  IF 2 * r < d THEN f
        ELSE IF 2 * r > d THEN f + 1
        ELSE IF f % 2 = 0 THEN f ELSE f + 1

ResCompuesto(c, fila, nombre) ==
    [compuesto |-> c, percentil |-> fila.percentil, conf_90 |-> fila.conf_90,
     conf_95 |-> fila.conf_95, nombre_escala |-> nombre]

SinResCompuesto ==
    [compuesto |-> 0, percentil |-> <<>>, conf_90 |-> <<>>, conf_95 |-> <<>>, nombre_escala |-> ""]

ErrorCompuesto(e, m) == Lanza(e, m, SinResCompuesto)

\* min(sumas), max(sumas) over a non-empty table
MinSumas(datos) == CHOOSE m \in {datos[i].suma : i \in 1..Len(datos)} :
                      \A i \in 1..Len(datos) : m <= datos[i].suma

MaxSumas(datos) == CHOOSE m \in {datos[i].suma : i \in 1..Len(datos)} :
                      \A i \in 1..Len(datos) : m >= datos[i].suma

\* the exact-match loop never matching
FilaExacta_nunca(datos, i, suma_escalar) == 0

\* lines 433-441: the first row, in table order, whose sum is the one asked
RECURSIVE FilaExacta(_, _, _)
FilaExacta(datos, i, suma_escalar) ==
    IF i > Len(datos) THEN 0
    ELSE IF datos[i].suma = suma_escalar THEN i
    ELSE FilaExacta(datos, i + 1, suma_escalar)

\* the extrapolation below the table without the floor at 40
ExtrapolarBajo_sin_piso(datos, nombre, suma_escalar) ==
    IF Len(datos) < 2 THEN ErrorCompuesto("IndexError", <<"list index out of range">>)
    ELSE LET fila_min == datos[1]
             fila_sig == datos[2]
             den == fila_sig.suma - fila_min.suma
             num == fila_min.valor * den
                    + (fila_sig.valor - fila_min.valor) * (suma_escalar - fila_min.suma)
         IN  IF den = 0 THEN ErrorCompuesto("ZeroDivisionError", <<"division by zero">>)
             ELSE Retorna(ResCompuesto(Min2(160, round(num, den)), fila_min, nombre))

\* lines 445-459: below the smallest tabulated sum
ExtrapolarBajo(datos, nombre, suma_escalar) ==
    IF Len(datos) < 2 THEN ErrorCompuesto("IndexError", <<"list index out of range">>)
    ELSE LET fila_min == datos[1]
             fila_sig == datos[2]
             den == fila_sig.suma - fila_min.suma
             num == fila_min.valor * den
                    + (fila_sig.valor - fila_min.valor) * (suma_escalar - fila_min.suma)
         IN  IF den = 0 THEN ErrorCompuesto("ZeroDivisionError", <<"division by zero">>)
             ELSE Retorna(ResCompuesto(Max2(40, Min2(160, round(num, den))), fila_min, nombre))

\* line 475: the percentile returned above the largest tabulated sum
PercentilAlto(fila_max) ==
    IF Contiene(fila_max.percentil, <<"9", "9", ".", "9">>)
    THEN <<">", "9", "9", ".", "9">>
    ELSE fila_max.percentil

\* the extrapolation above the table without the cap at 160
ExtrapolarAlto_sin_tope(datos, nombre, suma_escalar) ==
    IF Len(datos) < 2 THEN ErrorCompuesto("IndexError", <<"list index out of range">>)
    ELSE LET fila_max == datos[Len(datos)]
             fila_ant == datos[Len(datos) - 1]
             den == 10 * (fila_max.suma - fila_ant.suma)
             num == fila_max.valor * den
                    + 7 * (fila_max.valor - fila_ant.valor) * (suma_escalar - fila_max.suma)
         IN  IF den = 0 THEN ErrorCompuesto("ZeroDivisionError", <<"division by zero">>)
             ELSE Retorna([ResCompuesto(Max2(fila_max.valor, round(num, den)), fila_max, nombre)
                           EXCEPT !.percentil = PercentilAlto(fila_max)])

\* the extrapolation above the table with the undamped slope
ExtrapolarAlto_sin_amortiguar(datos, nombre, suma_escalar) ==
    IF Len(datos) < 2 THEN ErrorCompuesto("IndexError", <<"list index out of range">>)
    ELSE LET fila_max == datos[Len(datos)]
             fila_ant == datos[Len(datos) - 1]
             den == fila_max.suma - fila_ant.suma
             num == fila_max.valor * den
                    + (fila_max.valor - fila_ant.valor) * (suma_escalar - fila_max.suma)
         IN  IF den = 0 THEN ErrorCompuesto("ZeroDivisionError", <<"division by zero">>)
             ELSE Retorna([ResCompuesto(Max2(fila_max.valor, Min2(160, round(num, den))),
                                        fila_max, nombre)
                           EXCEPT !.percentil = PercentilAlto(fila_max)])

\* lines 460-483: above the largest tabulated sum, the slope damped to 0.7
ExtrapolarAlto(datos, nombre, suma_escalar) ==
    IF Len(datos) < 2 THEN ErrorCompuesto("IndexError", <<"list index out of range">>)
    ELSE LET fila_max == datos[Len(datos)]
             fila_ant == datos[Len(datos) - 1]
             den == 10 * (fila_max.suma - fila_ant.suma)
             num == fila_max.valor * den
                    + 7 * (fila_max.valor - fila_ant.valor) * (suma_escalar - fila_max.suma)
         IN  IF den = 0 THEN ErrorCompuesto("ZeroDivisionError", <<"division by zero">>)
             ELSE Retorna([ResCompuesto(Max2(fila_max.valor, Min2(160, round(num, den))),
                                        fila_max, nombre)
                           EXCEPT !.percentil = PercentilAlto(fila_max)])

\* the interpolation returning the percentile and intervals of the upper row
RECURSIVE Interpolar_fila_superior(_, _, _, _)
Interpolar_fila_superior(datos, i, nombre, suma_escalar) ==
    IF i > Len(datos) - 1
    THEN Retorna(ResCompuesto(datos[Len(datos)].valor, datos[Len(datos)], nombre))
    ELSE IF datos[i].suma <= suma_escalar /\ suma_escalar <= datos[i + 1].suma
    THEN LET fila_inf == datos[i]
             fila_sup == datos[i + 1]
             den == fila_sup.suma - fila_inf.suma
             num == fila_inf.valor * den
                    + (suma_escalar - fila_inf.suma) * (fila_sup.valor - fila_inf.valor)
         IN  IF den = 0 THEN ErrorCompuesto("ZeroDivisionError", <<"division by zero">>)
             ELSE Retorna(ResCompuesto(round(num, den), fila_sup, nombre))
    ELSE Interpolar_fila_superior(datos, i + 1, nombre, suma_escalar)

\* the interpolation with the position ratio taken from the upper row
RECURSIVE Interpolar_invertida(_, _, _, _)
Interpolar_invertida(datos, i, nombre, suma_escalar) ==
    IF i > Len(datos) - 1
    THEN Retorna(ResCompuesto(datos[Len(datos)].valor, datos[Len(datos)], nombre))
    ELSE IF datos[i].suma <= suma_escalar /\ suma_escalar <= datos[i + 1].suma
    THEN LET fila_inf == datos[i]
             fila_sup == datos[i + 1]
             den == fila_sup.suma - fila_inf.suma
             num == fila_inf.valor * den
                    + (fila_sup.suma - suma_escalar) * (fila_sup.valor - fila_inf.valor)
         IN  IF den = 0 THEN ErrorCompuesto("ZeroDivisionError", <<"division by zero">>)
             ELSE Retorna(ResCompuesto(round(num, den), fila_inf, nombre))
    ELSE Interpolar_invertida(datos, i + 1, nombre, suma_escalar)

\* lines 485-508: the first pair of adjacent rows that brackets the sum, from
\* pair i on; the last row when no pair does
RECURSIVE Interpolar(_, _, _, _)
Interpolar(datos, i, nombre, suma_escalar) ==
    IF i > Len(datos) - 1
    THEN Retorna(ResCompuesto(datos[Len(datos)].valor, datos[Len(datos)], nombre))
    ELSE IF datos[i].suma <= suma_escalar /\ suma_escalar <= datos[i + 1].suma
    THEN LET fila_inf == datos[i]
             fila_sup == datos[i + 1]
             den == fila_sup.suma - fila_inf.suma
             num == fila_inf.valor * den
                    + (suma_escalar - fila_inf.suma) * (fila_sup.valor - fila_inf.valor)
         IN  IF den = 0 THEN ErrorCompuesto("ZeroDivisionError", <<"division by zero">>)
             ELSE Retorna(ResCompuesto(round(num, den), fila_inf, nombre))
    ELSE Interpolar(datos, i + 1, nombre, suma_escalar)

\* the conversion answering with the scale's mean when it finds no row to use
convertir_compuesto_media(tc, escala_abrev, suma_escalar) ==
    IF DOMAIN tc.tablas_conversion = {}
    THEN ErrorCompuesto("ValueError", <<"No se cargaron las tablas de compuestos">>)
    ELSE IF escala_abrev \notin DOMAIN tc.tablas_conversion
    THEN Retorna([SinResCompuesto EXCEPT !.compuesto = 100])
    ELSE LET tabla_escala == tc.tablas_conversion[escala_abrev]
             datos == tabla_escala.datos
             nombre == tabla_escala.nombre
             exacta == FilaExacta(datos, 1, suma_escalar)
         IN  IF exacta # 0 THEN Retorna(ResCompuesto(datos[exacta].valor, datos[exacta], nombre))
             ELSE IF Len(datos) = 0
             THEN Retorna([SinResCompuesto EXCEPT !.compuesto = 100])
             ELSE IF suma_escalar < MinSumas(datos) THEN ExtrapolarBajo(datos, nombre, suma_escalar)
             ELSE IF suma_escalar > MaxSumas(datos) THEN ExtrapolarAlto(datos, nombre, suma_escalar)
             ELSE Interpolar(datos, 1, nombre, suma_escalar)

convertir_compuesto(tc, escala_abrev, suma_escalar) ==
    IF DOMAIN tc.tablas_conversion = {}
    THEN ErrorCompuesto("ValueError", <<"No se cargaron las tablas de compuestos">>)
    ELSE IF escala_abrev \notin DOMAIN tc.tablas_conversion
    THEN ErrorCompuesto("ValueError", <<"Escala no encontrada en las tablas">>)
    ELSE LET tabla_escala == tc.tablas_conversion[escala_abrev]
             datos == tabla_escala.datos
             nombre == tabla_escala.nombre
             exacta == FilaExacta(datos, 1, suma_escalar)
         IN  IF exacta # 0 THEN Retorna(ResCompuesto(datos[exacta].valor, datos[exacta], nombre))
             ELSE IF Len(datos) = 0
             THEN ErrorCompuesto("ValueError", <<"min() arg is an empty sequence">>)
             ELSE IF suma_escalar < MinSumas(datos) THEN ExtrapolarBajo(datos, nombre, suma_escalar)
             ELSE IF suma_escalar > MaxSumas(datos) THEN ExtrapolarAlto(datos, nombre, suma_escalar)
             ELSE Interpolar(datos, 1, nombre, suma_escalar)

(***************************************************************************)
(* ConversorCIT.convertir_cit (main.py): sum of seven scaled scores -> CIT. *)
(***************************************************************************)
ResCIT(c, fila) ==
    [compuesto |-> c, percentil |-> fila.percentil, conf_90 |-> fila.conf_90,
     conf_95 |-> fila.conf_95]

SinResCIT == [compuesto |-> 0, percentil |-> <<>>, conf_90 |-> <<>>, conf_95 |-> <<>>]

ErrorCIT(e, m) == Lanza(e, m, SinResCIT)

\* lines 572-594: the first pair of adjacent rows that brackets the sum, from
\* pair i on; when no pair does, the row the loop of line 557 ended on
RECURSIVE InterpolarCIT(_, _, _)
InterpolarCIT(datos, i, suma_escalar) ==
    IF i > Len(datos) - 1
    THEN Retorna(ResCIT(datos[Len(datos)].cit, datos[Len(datos)]))
    ELSE IF datos[i].suma <= suma_escalar /\ suma_escalar <= datos[i + 1].suma
    THEN LET fila_inf == datos[i]
             fila_sup == datos[i + 1]
             den == fila_sup.suma - fila_inf.suma
             num == fila_inf.cit * den
                    + (suma_escalar - fila_inf.suma) * (fila_sup.cit - fila_inf.cit)
         IN  IF den = 0 THEN ErrorCIT("ZeroDivisionError", <<"division by zero">>)
             ELSE Retorna(ResCIT(round(num, den), fila_inf))
    ELSE InterpolarCIT(datos, i + 1, suma_escalar)

\* the conversion that extends the slope of the boundary rows outside the table
convertir_cit_extrapolando(tc, suma_escalar) ==
    LET datos == tc.datos
        exacta == FilaExacta(datos, 1, suma_escalar)
    IN  IF Len(datos) = 0 THEN ErrorCIT("ValueError", <<"No se cargo la tabla CIT">>)
        ELSE IF exacta # 0 THEN Retorna(ResCIT(datos[exacta].cit, datos[exacta]))
        ELSE IF suma_escalar < MinSumas(datos) /\ Len(datos) >= 2
        THEN LET den == datos[2].suma - datos[1].suma
                 num == datos[1].cit * den + (datos[2].cit - datos[1].cit) * (suma_escalar - datos[1].suma)
             IN  Retorna(ResCIT(Max2(40, Min2(160, round(num, den))), datos[1]))
        ELSE IF suma_escalar < MinSumas(datos) THEN Retorna(ResCIT(datos[1].cit, datos[1]))
        ELSE IF suma_escalar > MaxSumas(datos)
        THEN Retorna(ResCIT(datos[Len(datos)].cit, datos[Len(datos)]))
        ELSE InterpolarCIT(datos, 1, suma_escalar)

\* lines 548-598
convertir_cit(tc, suma_escalar) ==
    LET datos == tc.datos
        exacta == FilaExacta(datos, 1, suma_escalar)
    IN  IF Len(datos) = 0 THEN ErrorCIT("ValueError", <<"No se cargo la tabla CIT">>)
        ELSE IF exacta # 0 THEN Retorna(ResCIT(datos[exacta].cit, datos[exacta]))
        ELSE IF suma_escalar < MinSumas(datos) THEN Retorna(ResCIT(datos[1].cit, datos[1]))
        ELSE IF suma_escalar > MaxSumas(datos)
        THEN Retorna(ResCIT(datos[Len(datos)].cit, datos[Len(datos)]))
        ELSE InterpolarCIT(datos, 1, suma_escalar)

(***************************************************************************)
(* WiscVApp (main.py): the score form.                                     *)
(***************************************************************************)
\* the keys of entries_puntajes, in insertion order (lines 1438-1500)
SubpruebasUI ==
    <<"CC", "AN", "MR", "RD", "CLA", "VOC", "BAL", "RV", "RI", "BS",
      "IN", "SLN", "CAN", "COM", "ARI">>

ConjSubpruebasUI == {SubpruebasUI[i] : i \in 1..Len(SubpruebasUI)}

\* lines 1372-1379 and 1419-1434: the scales in the order of the form, with
\* their abbreviation and subtests
escalas_compuestas ==
    << [abreviatura |-> "ICV", subtests |-> <<"AN", "VOC">>],
       [abreviatura |-> "IVE", subtests |-> <<"CC", "RV">>],
       [abreviatura |-> "IRF", subtests |-> <<"MR", "BAL">>],
       [abreviatura |-> "IMT", subtests |-> <<"RI", "RD">>],
       [abreviatura |-> "IVP", subtests |-> <<"CLA", "BS">>],
       [abreviatura |-> "CIT", subtests |-> <<"CC", "AN", "MR", "RD", "CLA", "VOC", "BAL">>] >>

Abreviaturas == {escalas_compuestas[i].abreviatura : i \in 1..Len(escalas_compuestas)}

SubtestsDe(abrev) ==
    escalas_compuestas[CHOOSE i \in 1..Len(escalas_compuestas) :
                          escalas_compuestas[i].abreviatura = abrev].subtests

\* line 2312
subpruebas_principales == <<"CC", "AN", "MR", "RD", "CLA", "VOC", "BAL">>

\* a message box: tk.messagebox.showinfo / showwarning / showerror; the body
\* of the summary of calcular_puntajes is kept as its parts (the count and
\* the error lines)
Mensaje(tipo, titulo, texto) ==
    [tipo |-> tipo, titulo |-> titulo, texto |-> texto, calculadas |-> 0, errores |-> <<>>]

\* lines 2160-2192: what one row of the form gives: the label text, whether
\* the subtest counts as calculated, and the error lines appended
FilaVacia == [label |-> <<>>, calculada |-> FALSE, errores |-> <<>>]

ProcesarSubprueba(d, edad_formato, subprueba, puntaje_bruto_str) ==
    IF puntaje_bruto_str = <<>> THEN FilaVacia
    ELSE IF ~IntValido(puntaje_bruto_str)
    THEN [label |-> <<"Inválido">>, calculada |-> FALSE,
          errores |-> << [subprueba |-> subprueba, prefijo |-> "Puntaje inválido en",
                          detalle |-> <<"invalid literal for int()">>] >>]
    ELSE LET r == convertir_puntaje(d, edad_formato, subprueba, IntDe(puntaje_bruto_str))
         IN  IF r.ok THEN [label |-> Str(r.val), calculada |-> TRUE, errores |-> <<>>]
             ELSE IF r.exc = "ValueError"
             THEN [label |-> <<"Inválido">>, calculada |-> FALSE,
                   errores |-> << [subprueba |-> subprueba, prefijo |-> "Puntaje inválido en",
                                   detalle |-> r.msg] >>]
             ELSE [label |-> <<"Error">>, calculada |-> FALSE,
                   errores |-> << [subprueba |-> subprueba, prefijo |-> "Error en",
                                   detalle |-> r.msg] >>]

\* the error lines of rows i.. of the form, in the order of the loop
RECURSIVE ErroresDesde(_, _)
ErroresDesde(filas, i) ==
    IF i > Len(SubpruebasUI) THEN <<>>
    ELSE filas[SubpruebasUI[i]].errores \o ErroresDesde(filas, i + 1)

\* lines 2195-2214: the summary shown after the loop
ResumenPuntajes(subpruebas_calculadas, errores) ==
    IF subpruebas_calculadas > 0
    THEN [tipo |-> "showinfo", titulo |-> "Resultado", texto |-> <<"Puntajes calculados">>,
          calculadas |-> subpruebas_calculadas, errores |-> errores]
    ELSE Mensaje("showwarning", "Advertencia", <<"No se ingresaron puntajes brutos válidos">>)

\* lines 2225-2232: the labels that hold a scaled score, as a dict
PuntajesEscalares(etqs) ==
    LET validas == {sub \in ConjSubpruebasUI :
                       /\ etqs[sub] # <<>>
                       /\ etqs[sub] \notin {<<"Inválido">>, <<"Error">>}
                       /\ IntValido(etqs[sub])}
    IN  [sub \in validas |-> IntDe(etqs[sub])]

\* lines 2261-2266 and 2314-2317: the scores available among the subtests
\* i.. of a scale
RECURSIVE PuntajesDisponibles(_, _, _)
PuntajesDisponibles(subtests, i, puntajes_escalares) ==
    IF i > Len(subtests) THEN <<>>
    ELSE (IF subtests[i] \in DOMAIN puntajes_escalares
          THEN <<puntajes_escalares[subtests[i]]>> ELSE <<>>)
         \o PuntajesDisponibles(subtests, i + 1, puntajes_escalares)

RECURSIVE sum(_)
sum(xs) == IF Len(xs) = 0 THEN 0 ELSE Head(xs) + sum(Tail(xs))

\* lines 2351-2356
FilaLimpia == [suma |-> <<>>, compuesto |-> <<>>, percentil |-> <<>>, confianza |-> <<>>]

\* lines 2278-2290 and 2327-2339: the row shown for a conversion result
FilaDeResultado(suma_puntajes, resultado, nivel) ==
    [suma |-> Str(suma_puntajes),
     compuesto |-> Str(resultado.compuesto),
     percentil |-> resultado.percentil \o <<"%">>,
     confianza |-> IF nivel = "90%" THEN resultado.conf_90 ELSE resultado.conf_95]

\* what the loop of calcular_puntajes_compuestos leaves for one scale: the
\* row, whether a value is stored in resultados_actuales and which, and the
\* call made to the converter (none when llamada is FALSE)
SinCalculo == [fila |-> FilaLimpia, guardado |-> FALSE, compuesto |-> 0,
               llamada |-> FALSE, suma |-> 0, ok |-> TRUE]

\* the CIT computed from whatever principal subtests are available
calcular_escala_total_cit_parcial(tc, puntajes_escalares, nivel) ==
    LET puntajes_disponibles == PuntajesDisponibles(subpruebas_principales, 1, puntajes_escalares)
        suma_puntajes == sum(puntajes_disponibles)
        r == convertir_cit(tc, suma_puntajes)
    IN  IF Len(puntajes_disponibles) >= 1
        THEN IF r.ok
             THEN [fila |-> FilaDeResultado(suma_puntajes, r.val, nivel), guardado |-> TRUE,
                   compuesto |-> r.val.compuesto, llamada |-> TRUE, suma |-> suma_puntajes,
                   ok |-> TRUE]
             ELSE [SinCalculo EXCEPT !.llamada = TRUE, !.suma = suma_puntajes, !.ok = FALSE]
        ELSE SinCalculo

\* lines 2309-2349
calcular_escala_total_cit(tc, puntajes_escalares, nivel) ==
    LET puntajes_disponibles == PuntajesDisponibles(subpruebas_principales, 1, puntajes_escalares)
        suma_puntajes == sum(puntajes_disponibles)
        r == convertir_cit(tc, suma_puntajes)
    IN  IF Len(puntajes_disponibles) = 7
        THEN IF r.ok
             THEN [fila |-> FilaDeResultado(suma_puntajes, r.val, nivel), guardado |-> TRUE,
                   compuesto |-> r.val.compuesto, llamada |-> TRUE, suma |-> suma_puntajes,
                   ok |-> TRUE]
             ELSE [SinCalculo EXCEPT !.llamada = TRUE, !.suma = suma_puntajes, !.ok = FALSE]
        ELSE SinCalculo

\* lines 2260-2301: one scale other than the CIT
CalcularEscala(tcomp, abrev, puntajes_escalares, nivel) ==
    LET puntajes_disponibles == PuntajesDisponibles(SubtestsDe(abrev), 1, puntajes_escalares)
        suma_puntajes == sum(puntajes_disponibles)
        r == convertir_compuesto(tcomp, abrev, suma_puntajes)
    IN  IF Len(puntajes_disponibles) >= 1
        THEN IF r.ok
             THEN [fila |-> FilaDeResultado(suma_puntajes, r.val, nivel), guardado |-> TRUE,
                   compuesto |-> r.val.compuesto, llamada |-> TRUE, suma |-> suma_puntajes,
                   ok |-> TRUE]
             ELSE [SinCalculo EXCEPT !.llamada = TRUE, !.suma = suma_puntajes, !.ok = FALSE]
        ELSE SinCalculo

\* lines 2253-2301: every scale of the form
CalcularEscalas(tcomp, tc, puntajes_escalares, nivel) ==
    [abrev \in Abreviaturas |->
        IF abrev = "CIT" THEN calcular_escala_total_cit(tc, puntajes_escalares, nivel)
        ELSE CalcularEscala(tcomp, abrev, puntajes_escalares, nivel)]

(***************************************************************************)
(* DatabaseManager (main.py).  A store is the pair of its tables, each a   *)
(* function from primary key to row.  Every statement runs in its own      *)
(* connection with PRAGMA foreign_keys = ON (ejecutar_consulta) and is     *)
(* committed on its own; when it raises, ejecutar_consulta returns False   *)
(* and the store is as before.  falla_* says that the statement raised for *)
(* a reason outside the store (locked or unreadable file).                 *)
(***************************************************************************)
BD(p, e) == [pacientes |-> p, evaluaciones |-> e]

SinClaves(f, S) == [k \in (DOMAIN f) \ S |-> f[k]]

EvaluacionesDe(e, paciente_id) == {k \in DOMAIN e : e[k].paciente_id = paciente_id}

\* a value of a payload: an int, str, date or an object json cannot encode
\* (tipo, with its text v), or a dict of values by key
Atomo(tipo, v) == [tipo |-> tipo, v |-> v, hijos |-> <<>>]

Dicc(hijos) == [tipo |-> "dict", v |-> "", hijos |-> hijos]

\* lines 261-267 and 294: whether json.dumps encodes the value; with
\* default=json_serializer a date is encoded at any depth
RECURSIVE Codificable(_, _)
Codificable(valor, con_default) ==
    IF valor.tipo = "dict"
    THEN \A k \in DOMAIN valor.hijos : Codificable(valor.hijos[k], con_default)
    ELSE IF valor.tipo = "date" THEN con_default
    ELSE valor.tipo \in {"int", "str"}

\* the JSON value written: a date becomes the string of its isoformat()
RECURSIVE Codificar(_)
Codificar(valor) ==
    IF valor.tipo = "dict"
    THEN Dicc([k \in DOMAIN valor.hijos |-> Codificar(valor.hijos[k])])
    ELSE IF valor.tipo = "date" THEN Atomo("str", valor.v)
    ELSE valor

\* date -> isoformat()
FechaATexto(valor) == IF valor.tipo = "date" THEN Atomo("str", valor.v) ELSE valor

\* lines 281-292: the copy made for the second pass, dates turned to text at
\* the top level and inside the dicts of the top level
Simplificar(datos) ==
    Dicc([key \in DOMAIN datos.hijos |->
            LET value == datos.hijos[key]
            IN  IF value.tipo = "dict"
                THEN Dicc([k \in DOMAIN value.hijos |-> FechaATexto(value.hijos[k])])
                ELSE FechaATexto(value)])

\* json.dumps(datos_evaluacion)
datos_json(datos) == <<"json", Codificar(datos)>>

\* the INSERT replacing the row of a used primary key
InsertarEvaluacion_reemplaza(bd, evaluacion_id, paciente_id, texto, ahora, falla) ==
    IF falla \/ paciente_id \notin DOMAIN bd.pacientes
    THEN [bd |-> bd, exito |-> FALSE]
    ELSE [bd |-> BD(bd.pacientes,
                    [k \in (DOMAIN bd.evaluaciones) \cup {evaluacion_id} |->
                        IF k = evaluacion_id
                        THEN [paciente_id |-> paciente_id, fecha_evaluacion |-> ahora,
                              datos_evaluacion |-> texto]
                        ELSE bd.evaluaciones[k]]),
          exito |-> TRUE]

\* the INSERT with the FOREIGN KEY of paciente_id not enforced
InsertarEvaluacion_sin_clave_foranea(bd, evaluacion_id, paciente_id, texto, ahora, falla) ==
    IF falla \/ evaluacion_id \in DOMAIN bd.evaluaciones
    THEN [bd |-> bd, exito |-> FALSE]
    ELSE [bd |-> BD(bd.pacientes,
                    [k \in (DOMAIN bd.evaluaciones) \cup {evaluacion_id} |->
                        IF k = evaluacion_id
                        THEN [paciente_id |-> paciente_id, fecha_evaluacion |-> ahora,
                              datos_evaluacion |-> texto]
                        ELSE bd.evaluaciones[k]]),
          exito |-> TRUE]

\* lines 254-257 through ejecutar_consulta: the INSERT fails on a used
\* primary key and on a paciente_id that is not in pacientes (FOREIGN KEY)
InsertarEvaluacion(bd, evaluacion_id, paciente_id, texto, ahora, falla) ==
    IF \/ falla
       \/ evaluacion_id \in DOMAIN bd.evaluaciones
       \/ paciente_id \notin DOMAIN bd.pacientes
    THEN [bd |-> bd, exito |-> FALSE]
    ELSE [bd |-> BD(bd.pacientes,
                    [k \in (DOMAIN bd.evaluaciones) \cup {evaluacion_id} |->
                        IF k = evaluacion_id
                        THEN [paciente_id |-> paciente_id, fecha_evaluacion |-> ahora,
                              datos_evaluacion |-> texto]
                        ELSE bd.evaluaciones[k]]),
          exito |-> TRUE]

\* the id returned whether or not the INSERT succeeded
agregar_evaluacion_sin_verificar(bd, evaluacion_id, paciente_id, datos, ahora, falla, falla_2) ==
    IF Codificable(datos, TRUE)
    THEN [bd |-> InsertarEvaluacion(bd, evaluacion_id, paciente_id, datos_json(datos), ahora, falla).bd,
          ret |-> evaluacion_id, pasadas |-> 1, fallos |-> 0]
    ELSE [bd |-> bd, ret |-> "None", pasadas |-> 2, fallos |-> 0]

\* lines 250-307: pasadas is the number of serialization passes made, fallos
\* the number of statements that raised inside ejecutar_consulta
agregar_evaluacion(bd, evaluacion_id, paciente_id, datos, ahora, falla, falla_2) ==
    IF Codificable(datos, TRUE)
    THEN LET r == InsertarEvaluacion(bd, evaluacion_id, paciente_id, datos_json(datos), ahora, falla)
         IN  [bd |-> r.bd, ret |-> IF r.exito THEN evaluacion_id ELSE "None", pasadas |-> 1,
              fallos |-> IF r.exito THEN 0 ELSE 1]
    ELSE LET datos_serializables == Simplificar(datos)
             r == InsertarEvaluacion(bd, evaluacion_id, paciente_id,
                                     <<"json", datos_serializables>>, ahora, falla_2)
         IN  IF Codificable(datos_serializables, FALSE)
             THEN [bd |-> r.bd, ret |-> IF r.exito THEN evaluacion_id ELSE "None", pasadas |-> 2,
                   fallos |-> IF r.exito THEN 0 ELSE 1]
             ELSE [bd |-> bd, ret |-> "None", pasadas |-> 2, fallos |-> 0]

\* lines 134-158
agregar_paciente(bd, paciente_id, nombre, ahora, falla) ==
    IF falla \/ paciente_id \in DOMAIN bd.pacientes
    THEN [bd |-> bd, ret |-> "None"]
    ELSE [bd |-> BD([k \in (DOMAIN bd.pacientes) \cup {paciente_id} |->
                        IF k = paciente_id
                        THEN [nombre |-> nombre, fecha_registro |-> ahora]
                        ELSE bd.pacientes[k]],
                    bd.evaluaciones),
          ret |-> paciente_id]

\* lines 212-227: the UPDATE succeeds also when no row has the id
actualizar_paciente(bd, paciente_id, nombre, falla) ==
    IF falla THEN [bd |-> bd, ret |-> "False"]
    ELSE [bd |-> BD([k \in DOMAIN bd.pacientes |->
                        IF k = paciente_id THEN [bd.pacientes[k] EXCEPT !.nombre = nombre]
                        ELSE bd.pacientes[k]],
                    bd.evaluaciones),
          ret |-> "True"]

\* the deletion of the row of pacientes alone, its evaluations kept
eliminar_paciente_solo(bd, paciente_id, falla_eval, falla_pac) ==
    [bd |-> BD(IF falla_pac THEN bd.pacientes ELSE SinClaves(bd.pacientes, {paciente_id}),
               bd.evaluaciones),
     ret |-> IF ~falla_eval /\ ~falla_pac THEN "True" ELSE "False"]

\* lines 229-248: DELETE FROM evaluaciones, committed, then DELETE FROM
\* pacientes, which also removes the patient's evaluations (ON DELETE CASCADE)
eliminar_paciente(bd, paciente_id, falla_eval, falla_pac) ==
    LET evals1 == IF falla_eval THEN bd.evaluaciones
                  ELSE SinClaves(bd.evaluaciones, EvaluacionesDe(bd.evaluaciones, paciente_id))
        evals2 == IF falla_pac THEN evals1
                  ELSE SinClaves(evals1, EvaluacionesDe(evals1, paciente_id))
        pacs2 == IF falla_pac THEN bd.pacientes ELSE SinClaves(bd.pacientes, {paciente_id})
    IN  [bd |-> BD(pacs2, evals2),
         ret |-> IF ~falla_eval /\ ~falla_pac THEN "True" ELSE "False"]

\* lines 337-361
obtener_evaluacion(bd, evaluacion_id) ==
    IF evaluacion_id \in DOMAIN bd.evaluaciones THEN evaluacion_id ELSE "None"

(***************************************************************************)
(* Loading the tables when the program starts.  A JSON file is absent,     *)
(* unreadable as JSON, or holds a dict (contenido, a function of its       *)
(* keys).                                                                  *)
(***************************************************************************)
Archivo(estado, contenido) == [estado |-> estado, contenido |-> contenido]

ArchivoAusente == Archivo("ausente", <<>>)

ArchivoMalformado == Archivo("malformado", <<>>)

\* converter.py lines 10-26: every failure is raised again as an Exception
cargar_datos(archivo) ==
    IF archivo.estado = "ausente"
    THEN Lanza("Exception", <<"Archivo JSON no encontrado">>, <<>>)
    ELSE IF archivo.estado = "malformado"
    THEN Lanza("Exception", <<"Error al decodificar el JSON">>, <<>>)
    ELSE IF "WISC_V_tablas_conversion" \notin DOMAIN archivo.contenido
    THEN Lanza("Exception", <<"Error al cargar datos">>, <<>>)
    ELSE Retorna(archivo.contenido["WISC_V_tablas_conversion"])

\* main.py lines 18-23 with converter.py line 168: what the import of
\* conversor leaves.  Only ImportError is caught; the Exception of
\* _cargar_datos leaves the try statement and ends the interpreter.
ImportarConversorDe(modulo_presente, archivo) ==
    LET r == cargar_datos(archivo)
    IN  IF ~modulo_presente THEN [termina |-> FALSE, conversor |-> "None", data |-> <<>>]
        ELSE IF r.ok THEN [termina |-> FALSE, conversor |-> "WISCConverter", data |-> r.val]
        ELSE [termina |-> TRUE, conversor |-> "sin definir", data |-> <<>>]

\* main.py lines 391-418
cargar_tablas_compuestos(archivo) ==
    IF archivo.estado = "valido" /\ "tablas_conversion" \in DOMAIN archivo.contenido
    THEN archivo.contenido
    ELSE [tablas_conversion |-> <<>>]

\* main.py lines 521-546
cargar_tabla_cit(archivo) ==
    IF archivo.estado = "valido" /\ "tabla" \in DOMAIN archivo.contenido
    THEN archivo.contenido
    ELSE [datos |-> <<>>]

\* the keys "1".."19" of a subtest's table, in the order they are listed
ClavesEscalares ==
    << "1", "2", "3", "4", "5", "6", "7", "8", "9", "10",
       "11", "12", "13", "14", "15", "16", "17", "18", "19" >>

\* tablas_wiscv.py lines 70-74: the raw-score ranges of CC for "1".."19"
RangosCC ==
    <<
       <<"0", "-", "3">>, <<"4">>, <<"5">>, <<"6", "-", "7">>,
       <<"8", "-", "9">>, <<"1", "0", "-", "1", "1">>, <<"1", "2", "-", "1", "4">>, <<"1", "5", "-", "1", "6">>,
       <<"1", "7", "-", "1", "9">>, <<"2", "0", "-", "2", "1">>, <<"2", "2", "-", "2", "4">>, <<"2", "5", "-", "2", "7">>,
       <<"2", "8", "-", "3", "0">>, <<"3", "1", "-", "3", "2">>, <<"3", "3", "-", "3", "5">>, <<"3", "6", "-", "3", "7">>,
       <<"3", "8", "-", "3", "9">>, <<"4", "0", "-", "4", "1">>, <<"4", "2", "-", "5", "8">> >>

\* the ranges of CC listed one key later, "0" put first
RangosCC_corridos == <<<<"0">>>> \o SubSeq(RangosCC, 1, 18)

\* tablas_wiscv.py lines 75-79: the raw-score ranges of BAL for "1".."19"
RangosBAL ==
    <<
       <<"0", "-", "3">>, <<"4", "-", "5">>, <<"6", "-", "7">>, <<"8", "-", "9">>,
       <<"1", "0">>, <<"1", "1">>, <<"1", "2">>, <<"1", "3">>,
       <<"1", "4">>, <<"1", "5", "-", "1", "6">>, <<"1", "7">>, <<"1", "9">>,
       <<"2", "0", "-", "2", "0">>, <<"2", "1", "-", "2", "2">>, <<"2", "3">>, <<"2", "4", "-", "2", "5">>,
       <<"2", "6">>, <<"2", "7">>, <<"2", "8", "-", "3", "4">> >>

\* the dict of a subtest from the ranges listed for "1".."19"
TablaDeRangos(rangos) ==
    [e \in {ClavesEscalares[i] : i \in 1..19} |->
        rangos[CHOOSE i \in 1..19 : ClavesEscalares[i] = e]]

\* the default tables with the ranges of CC listed one key later
obtener_tablas_por_defecto_corridas ==
    [g \in {<<"8", ":", "6", "-", "8", ":", "1", "1">>} |->
        [CC |-> TablaDeRangos(RangosCC_corridos), BAL |-> TablaDeRangos(RangosBAL)]]

\* tablas_wiscv.py lines 66-82: one band, the subtests CC and BAL
obtener_tablas_por_defecto ==
    [g \in {<<"8", ":", "6", "-", "8", ":", "1", "1">>} |->
        [CC |-> TablaDeRangos(RangosCC), BAL |-> TablaDeRangos(RangosBAL)]]

\* archivo.endswith('.json')
TerminaEnJson(a) == Len(a) >= 5 /\ SubSeq(a, Len(a) - 4, Len(a)) = <<".", "j", "s", "o", "n">>

\* archivo.replace('.json', '').replace('_', ':')
RECURSIVE SinJson(_)
SinJson(a) ==
    IF a = <<>> THEN <<>>
    ELSE IF Len(a) >= 5 /\ SubSeq(a, 1, 5) = <<".", "j", "s", "o", "n">>
    THEN SinJson(SubSeq(a, 6, Len(a)))
    ELSE <<a[1]>> \o SinJson(Tail(a))

NombreGrupo(a) ==
    LET b == SinJson(a) IN [i \in 1..Len(b) |-> IF b[i] = "_" THEN ":" ELSE b[i]]

INFO_json == <<"I", "N", "F", "O", ".", "j", "s", "o", "n">>

\* tablas_wiscv.py lines 10-64: carpeta.existe is os.path.exists of the
\* folder 'tablas', carpeta.archivos its files by name
cargar_tablas_completas(carpeta) ==
    LET archivos_json == {a \in DOMAIN carpeta.archivos : TerminaEnJson(a) /\ a # INFO_json}
        cargados == {a \in archivos_json : carpeta.archivos[a].estado = "valido"}
    IN  IF ~carpeta.existe THEN obtener_tablas_por_defecto
        ELSE IF Cardinality(cargados) > 0
        THEN [g \in {NombreGrupo(a) : a \in cargados} |->
                 carpeta.archivos[CHOOSE a \in cargados : NombreGrupo(a) = g].contenido]
        ELSE obtener_tablas_por_defecto

(***************************************************************************)
(* The converter over the tables of data/tablas_wiscv.py (band -> subtest  *)
(* -> scaled key -> raw-score range), the ConversorWISCV that              *)
(* debug_converter.py imports from core.converter: the age resolves to the *)
(* band that contains it, the subtest's ranges are scanned in the order of *)
(* the scaled keys and the first range that contains the raw score gives   *)
(* the scaled score.                                                       *)
(***************************************************************************)
ClaveDeGrupo(g) ==
    Str(g.anios_min) \o <<":">> \o Str(g.meses_min) \o <<"-">>
    \o Str(g.anios_max) \o <<":">> \o Str(g.meses_max)

obtener_grupo_etario(edad_formato) ==
    LET g == convertir_edad_a_grupo(edad_formato)
    IN  IF ~g.ok THEN Lanza(g.exc, g.msg, <<>>)
        ELSE Retorna(ClaveDeGrupo(grupos[CHOOSE i \in 1..Len(grupos) : grupos[i].grupo_id = g.val]))

RECURSIVE BuscarEnRangos(_, _, _)
BuscarEnRangos(tabla_subprueba, i, puntaje_bruto) ==
    IF i > Len(ClavesEscalares)
    THEN ErrorPuntaje("ValueError", <<"Puntaje bruto fuera de rango">>)
    ELSE IF /\ ClavesEscalares[i] \in DOMAIN tabla_subprueba
            /\ esta_en_rango(puntaje_bruto, tabla_subprueba[ClavesEscalares[i]])
    THEN Retorna(i)
    ELSE BuscarEnRangos(tabla_subprueba, i + 1, puntaje_bruto)

ConvertirConTablas(tablas, edad_formato, subprueba, puntaje_bruto) ==
    LET g == obtener_grupo_etario(edad_formato)
    IN  IF ~g.ok THEN ErrorPuntaje(g.exc, g.msg)
        ELSE IF g.val \notin DOMAIN tablas THEN ErrorPuntaje("ValueError", <<"Grupo no encontrado">>)
        ELSE IF subprueba \notin DOMAIN tablas[g.val]
        THEN ErrorPuntaje("ValueError", <<"Subprueba no encontrada">>)
        ELSE BuscarEnRangos(tablas[g.val][subprueba], 1, puntaje_bruto)

(***************************************************************************)
(* Inputs: ages, subtest codes, raw scores and the loaded data.            *)
(***************************************************************************)
\* an age as the caller formats it, f"{anios}:{meses}" (main.py)
Edad(a, m) == [formada |-> TRUE, anios |-> a, meses |-> m,
               texto |-> Str(a) \o <<":">> \o Str(m)]

\* strings that are not 'years:months'
EdadMalFormada(t) == [formada |-> FALSE, anios |-> 0, meses |-> 0, texto |-> t]

EdadesMalFormadas ==
    { EdadMalFormada(<<"8">>), EdadMalFormada(<<"8", ":", "x">>),
      EdadMalFormada(<<"8", ":", "6", ":", "1">>), EdadMalFormada(<<>>) }

PrimerAnio == grupos[1].anios_min
UltimoAnio == grupos[Len(grupos)].anios_max

\* every age around the 22 bands
EdadesTodas ==
    { Edad(a, m) : a \in (PrimerAnio - AniosExtra)..(UltimoAnio + AniosExtra), m \in 0..MaxMeses }
    \cup EdadesMalFormadas

\* ages at the edges of the valid domain and of the loaded bands
EdadesPuntaje ==
    { Edad(PrimerAnio - k, 11) : k \in 1..AniosExtra }
    \cup { Edad(UltimoAnio + k, 0) : k \in 1..AniosExtra }
    \cup { Edad(PrimerAnio, 0), Edad(PrimerAnio, 5), Edad(7, 0), Edad(8, 6), Edad(UltimoAnio, 11),
           EdadMalFormada(<<"8">>) }

SubpruebasPedidas == {"CC", "IN", "INF", "XX"}

MaxBruto == MaxCelda + 1

PuntajesBrutos == 0..MaxBruto

\* cells of a table: 'low-high', a single value, '-', '', a missing key, and
\* two cells that are neither a range nor a number
Celdas ==
    { Str(lo) \o <<"-">> \o Str(hi) : lo \in 1..MaxCelda, hi \in 1..MaxCelda }
    \cup { Str(v) : v \in 1..MaxCelda }
    \cup { <<"-">>, <<>>, None, <<"1", "-">>, <<"x">> }

\* a row with the cell c in the column col (no column when c is None)
Fila(escala, col, c) ==
    [puntaje_escala |-> escala,
     celdas |-> IF c = None THEN <<>> ELSE [k \in {col} |-> c]]

\* tables of up to MaxFilas rows with one column; row i carries scaled score i
Tablas(col) ==
    UNION { { [i \in 1..n |-> Fila(i, col, cs[i])] : cs \in [1..n -> Celdas] } : n \in 1..MaxFilas }

\* cells of the tables used where the call, not the table, is varied
CeldasSimples ==
    { Str(1) \o <<"-">> \o Str(MaxCelda), Str(MaxCelda), <<"-">>, None }

TablasSimples(col) ==
    UNION { { [i \in 1..n |-> Fila(i, col, cs[i])] : cs \in [1..n -> CeldasSimples] } : n \in 1..MaxFilas }

\* a table whose ranges are contiguous and do not overlap
TablaFija ==
    << Fila(1, "CC", <<"0", "-", "1">>), Fila(2, "CC", <<"2">>), Fila(3, "CC", <<"3", "-", "4">>) >>

Catalogos == { {"CC", "IN"}, {"CC"}, {"IN", "INF"} }

\* the data of wisc_v_data.json: the subtest catalogue and one table per band
\* (here: two bands loaded, the others missing from the file)
Datos(cat, t) ==
    [subpruebas |-> cat,
     grupos_etarios |-> [g \in {"6_0_6_5", "8_6_8_11"} |->
                            [tabla |-> IF g = "6_0_6_5" THEN t ELSE TablaFija]]]

\* every catalogue over simple tables
DatosPosibles ==
    { Datos(cat, t) : cat \in Catalogos, t \in TablasSimples("CC") \cup TablasSimples("IN") }

\* every table of the column 'CC' under a catalogue that also lists 'IN'
DatosDeTablas ==
    { Datos({"CC", "IN"}, t) : t \in Tablas("CC") }

\* ages of the two loaded bands
EdadesDeTablas == { Edad(PrimerAnio, 0), Edad(8, 6) }

DatosMin == [subpruebas |-> {"CC"}, grupos_etarios |-> [g \in {"8_6_8_11"} |-> [tabla |-> TablaFija]]]

\* composite values of the 40-160 scale written in the tables
ValoresCompuestos == {40, 45, 155, 160}

\* the percentile band printed next to a composite value
PercentilDe(valor) ==
    IF valor >= 160 THEN <<">", "9", "9", ".", "9">>
    ELSE IF valor >= 155 THEN <<"9", "9", ".", "9">>
    ELSE IF valor > 40 THEN <<"0", ".", "1">>
    ELSE <<"<", "0", ".", "1">>

\* a row of a composite table: the confidence intervals are 'low-high' strings
FilaCompuesto(suma, valor) ==
    [suma |-> suma, valor |-> valor, percentil |-> PercentilDe(valor),
     conf_90 |-> Str(valor - 5) \o <<"-">> \o Str(valor + 5),
     conf_95 |-> Str(valor - 6) \o <<"-">> \o Str(valor + 6)]

\* the sums of n rows listed in ascending or in descending order
SumasEnOrden(n) ==
    { f \in [1..n -> 1..MaxSuma] :
        \/ \A i \in 1..(n - 1) : f[i] < f[i + 1]
        \/ \A i \in 1..(n - 1) : f[i] > f[i + 1] }

\* tables of up to MaxFilasComp rows keyed by distinct sums (the rows are read
\* as the file lists them; nothing sorts them)
TablasCompuesto ==
    UNION { { [i \in 1..n |-> FilaCompuesto(ss[i], vs[i])] :
                ss \in SumasEnOrden(n), vs \in [1..n -> ValoresCompuestos] }
            : n \in 0..MaxFilasComp }

\* the contents of wisc_v_compuestos.json, or the empty structure of line 418
TablasCompuestosPosibles ==
    { [tablas_conversion |-> [e \in {"ICV"} |-> [nombre |-> "Comprension Verbal", datos |-> t]]]
      : t \in TablasCompuesto }
    \cup { [tablas_conversion |-> <<>>] }

SumasPedidas == 0..(MaxSuma + ExtraSuma)

EscalasPedidas == {"ICV", "IVE"}

\* a call not made yet: its arguments, and no result
EdadPendiente(e) == [hecha |-> FALSE, edad |-> e, res |-> Retorna("")]

PuntajePendiente(e, sub, p) ==
    [hecha |-> FALSE, edad |-> e, subprueba |-> sub, puntaje_bruto |-> p, res |-> Retorna(0)]

SinEdad == EdadPendiente(EdadMalFormada(<<>>))

SinPuntaje == PuntajePendiente(EdadMalFormada(<<>>), "", 0)

CompuestoPendiente(esc, suma) ==
    [hecha |-> FALSE, escala_abrev |-> esc, suma_escalar |-> suma,
     res |-> Retorna(SinResCompuesto)]

SinCompuesto == CompuestoPendiente("", 0)

SinTablas == [tablas_conversion |-> <<>>]

\* a row of the CIT table
FilaCIT(suma, cit) ==
    [suma |-> suma, cit |-> cit, percentil |-> PercentilDe(cit),
     conf_90 |-> Str(cit - 5) \o <<"-">> \o Str(cit + 5),
     conf_95 |-> Str(cit - 6) \o <<"-">> \o Str(cit + 6)]

\* the contents of wisc_v_cit.json, or the empty structure of line 546
TablasCIT ==
    { [datos |-> [i \in 1..Len(t) |-> FilaCIT(t[i].suma, t[i].valor)]] : t \in TablasCompuesto }

SinTablaCIT == [datos |-> <<>>]

CITPendiente(suma) == [hecha |-> FALSE, suma_escalar |-> suma, res |-> Retorna(SinResCIT)]

SinCIT == CITPendiente(0)

\* the data of the form: every subtest of the catalogue has a column in the
\* table of band 8:6-8:11, raw 1-2 giving scaled 1 and raw 3-4 scaled 2
FilaApp(i, cat) ==
    [puntaje_escala |-> i,
     celdas |-> [sub \in cat |-> Str(2 * i - 1) \o <<"-">> \o Str(2 * i)]]

DatosApp(cat) ==
    [subpruebas |-> cat,
     grupos_etarios |-> [g \in {"8_6_8_11"} |-> [tabla |-> <<FilaApp(1, cat), FilaApp(2, cat)>>]]]

\* composite tables for the indices given: sums 2 and 4 tabulated
TablasCompuestosApp(indices) ==
    [tablas_conversion |->
        [e \in indices |-> [nombre |-> e, datos |-> <<FilaCompuesto(2, 45), FilaCompuesto(4, 155)>>]]]

IndicesJSON == {"ICV", "IVE", "IRF", "IMT", "IVP"}

\* the CIT table of the form: sums 7 and 14 tabulated
TablaCITApp == [datos |-> <<FilaCIT(7, 40), FilaCIT(14, 160)>>]

\* self.edad_calculada: absent until calcular_edad has run
EdadCalculada(e) == [calculada |-> TRUE, edad |-> e]

SinEdadCalculada == [calculada |-> FALSE, edad |-> EdadMalFormada(<<>>)]

\* what the form runs on: the usual environment, and the environments that
\* differ from it in one respect
EntornoUsual ==
    [conversor |-> "WISCConverter", edad_calculada |-> EdadCalculada(Edad(8, 6)),
     nombre_entry |-> <<"A">>, nivel_confianza |-> "95%", data |-> DatosApp(ConjSubpruebasUI),
     tablas_compuestos |-> TablasCompuestosApp(IndicesJSON), tabla_cit |-> TablaCITApp]

Entornos ==
    { EntornoUsual,
      [EntornoUsual EXCEPT !.conversor = "None"],
      [EntornoUsual EXCEPT !.edad_calculada = SinEdadCalculada],
      [EntornoUsual EXCEPT !.edad_calculada = EdadCalculada(Edad(7, 0))],
      [EntornoUsual EXCEPT !.edad_calculada = EdadCalculada(Edad(5, 0))],
      [EntornoUsual EXCEPT !.nombre_entry = <<>>],
      [EntornoUsual EXCEPT !.nivel_confianza = "90%"],
      [EntornoUsual EXCEPT !.data = DatosApp(ConjSubpruebasUI \ {"ARI"})],
      [EntornoUsual EXCEPT !.tablas_compuestos = TablasCompuestosApp(IndicesJSON \ {"IVE"})],
      [EntornoUsual EXCEPT !.tablas_compuestos = SinTablas],
      [EntornoUsual EXCEPT !.tabla_cit = SinTablaCIT] }

\* what the user types in an entry: nothing, a word, a raw score of the
\* table, a raw score outside it
TextosDeEntrada == { <<>>, <<"x">>, Str(1), Str(3), Str(9) }

\* the subtests whose entry is varied: two of one index that count for the
\* CIT, one of an index that does not, one of no index
SubpruebasVariadas == {"AN", "VOC", "RV", "ARI"}

\* the entries of the form: all alike (empty, or the raw score 1) except for
\* at most MaxVariadas entries
EntradasPosibles ==
    UNION { { [sub \in ConjSubpruebasUI |-> IF sub \in D THEN f[sub] ELSE base] :
                f \in [D -> TextosDeEntrada \ {base}] }
            : D \in {X \in SUBSET SubpruebasVariadas : Cardinality(X) <= MaxVariadas},
              base \in {<<>>, Str(1)} }

EntradasIguales == { [sub \in ConjSubpruebasUI |-> base] : base \in {<<>>, Str(1)} }

\* str(uuid.uuid4())[:8]: the identifiers the store is tried with
IdsPacientes == {"0a1b2c3d", "4e5f6a7b"}

IdsEvaluaciones == {"8c9d0e1f", "2a3b4c5d"}

NombresPacientes == {"Ana", "Luis"}

\* payloads of an evaluation: plain; with dates at the top level and one
\* dict down; with a date two dicts down; with an object json cannot encode
\* at the top level, and one dict down next to a date
DatosEvaluacion ==
    { Dicc([k \in {"subpruebas"} |-> Dicc([c \in {"CC"} |-> Atomo("int", "7")])]),
      Dicc([k \in {"fecha", "edad_paciente"} |->
              IF k = "fecha" THEN Atomo("date", "2024-05-01")
              ELSE Dicc([c \in {"fecha_nacimiento"} |-> Atomo("date", "2015-11-01")])]),
      Dicc([k \in {"edad_paciente"} |->
              Dicc([c \in {"detalle"} |-> Dicc([d \in {"fecha"} |-> Atomo("date", "2015-11-01")])])]),
      Dicc([k \in {"grafico"} |-> Atomo("obj", "Figure")]),
      Dicc([k \in {"fecha", "compuestos"} |->
              IF k = "fecha" THEN Atomo("date", "2024-05-01")
              ELSE Dicc([c \in {"ICV"} |-> Atomo("obj", "numpy.int64")])]) }

DatosGuardados == Dicc([k \in {"subpruebas"} |-> Dicc([c \in {"CC"} |-> Atomo("int", "7")])])

\* the stores the application is opened on: patients registered at time 0,
\* each evaluation owned by a registered patient
BDsIniciales ==
    { BD([k \in P |-> [nombre |-> "Ana", fecha_registro |-> 0]],
         [k \in E |-> [paciente_id |-> own[k], fecha_evaluacion |-> 0,
                         datos_evaluacion |-> datos_json(DatosGuardados)]]) :
        P \in SUBSET IdsPacientes, E \in SUBSET IdsEvaluaciones, own \in [IdsEvaluaciones -> IdsPacientes] }

BDConsistente(bd) == \A k \in DOMAIN bd.evaluaciones : bd.evaluaciones[k].paciente_id \in DOMAIN bd.pacientes

LlamadaBD(op, arg, ret) == [op |-> op, arg |-> arg, ret |-> ret, pasadas |-> 0]

SinLlamadaBD == LlamadaBD("", "", "")

\* data/wisc_v_data.json as the program may find it
ArchivosDeDatos ==
    { ArchivoAusente, ArchivoMalformado, Archivo("valido", <<>>) }
    \cup { Archivo("valido", [k \in {"WISC_V_tablas_conversion"} |-> d]) :
             d \in {DatosMin, DatosApp(ConjSubpruebasUI)} }

\* data/wisc_v_compuestos.json
ArchivosDeCompuestos ==
    { ArchivoAusente, ArchivoMalformado, Archivo("valido", TablasCompuestosApp(IndicesJSON)) }

\* data/wisc_v_cit.json
ArchivosDeCIT ==
    { ArchivoAusente, ArchivoMalformado,
      Archivo("valido", [tabla |-> "CIT", datos |-> TablaCITApp.datos]) }

Banda_json == <<"8", "_", "6", "-", "8", "_", "1", "1", ".", "j", "s", "o", "n">>

ContenidoBanda == [CC |-> [e \in {"1"} |-> <<"0", "-", "3">>]]

\* the folder data/tablas
Carpetas ==
    { [existe |-> FALSE, archivos |-> <<>>],
      [existe |-> TRUE, archivos |-> <<>>],
      [existe |-> TRUE, archivos |-> (Banda_json :> Archivo("valido", ContenidoBanda))],
      [existe |-> TRUE, archivos |-> (Banda_json :> ArchivoMalformado)],
      [existe |-> TRUE, archivos |-> (INFO_json :> Archivo("valido", ContenidoBanda))],
      [existe |-> TRUE, archivos |-> (Banda_json :> Archivo("valido", ContenidoBanda))
                                     @@ (INFO_json :> Archivo("valido", <<>>))] }

\* the module data/tablas_wiscv.py not imported
SinImportar == [importado |-> FALSE, tablas |-> <<>>]

SinArchivos ==
    [converter |-> TRUE, datos |-> ArchivoAusente, compuestos |-> ArchivoAusente,
     cit |-> ArchivoAusente, tablas |-> [existe |-> FALSE, archivos |-> <<>>]]

\* the parts of the application at rest
(***************************************************************************)
(* PredictorEvolucionWISC                                                  *)
(***************************************************************************)
\* line 715: the fewest pairs entrenar_modelos trains on
MinimoPares == 10

\* lines 604-610; modelos tells whether modelo_cit and modelo_indices are
\* None, fitted, or left half-way by a run that raised
PredictorNuevo == [entrenado |-> FALSE, modelos |-> "None"]

\* entrenar_modelos with line 717 left out
entrenar_modelos_sin_reinicio(p, sklearn, n, lanza) ==
    IF ~sklearn THEN [predictor |-> p, ret |-> "False", corrida |-> "sin sklearn"]
    ELSE IF n < MinimoPares
    THEN [predictor |-> p, ret |-> "False", corrida |-> "insuficiente"]
    ELSE IF lanza
    THEN [predictor |-> [p EXCEPT !.modelos = "a medias"], ret |-> "excepcion",
          corrida |-> "interrumpida"]
    ELSE [predictor |-> [entrenado |-> TRUE, modelos |-> "ajustados"], ret |-> "True",
          corrida |-> "lograda"]

\* lines 705-761, over the n pairs extraer_datos_entrenamiento returns; lanza:
\* pandas or scikit-learn raises on the data (nothing catches it here)
entrenar_modelos(p, sklearn, n, lanza) ==
    IF ~sklearn THEN [predictor |-> p, ret |-> "False", corrida |-> "sin sklearn"]
    ELSE IF n < MinimoPares
    THEN [predictor |-> [p EXCEPT !.entrenado = FALSE], ret |-> "False",
          corrida |-> "insuficiente"]
    ELSE IF lanza
    THEN [predictor |-> [p EXCEPT !.modelos = "a medias"], ret |-> "excepcion",
          corrida |-> "interrumpida"]
    ELSE [predictor |-> [entrenado |-> TRUE, modelos |-> "ajustados"], ret |-> "True",
          corrida |-> "lograda"]

\* lines 763-812; con_evaluaciones: the patient has evaluations and features
\* could be prepared; lanza_p: the prediction raises (caught, line 810)
predecir_evolucion(p, sklearn, n, lanza, con_evaluaciones, lanza_p) ==
    LET e == IF p.entrenado THEN [predictor |-> p, ret |-> "True", corrida |-> "ninguna"]
             ELSE entrenar_modelos(p, sklearn, n, lanza)
    IN  IF e.ret = "excepcion" THEN e
        ELSE IF e.ret = "False" THEN [e EXCEPT !.ret = "None"]
        ELSE IF ~con_evaluaciones \/ lanza_p THEN [e EXCEPT !.ret = "None"]
        ELSE [e EXCEPT !.ret = "prediccion"]

\* lines 902-912
obtener_estadisticas_modelo(p) == IF ~p.entrenado THEN "No entrenado" ELSE "Entrenado"

SinCorrida == [resultado |-> "ninguna", pares |-> 0]

LlamadaIA(op, ret, n, antes) == [op |-> op, ret |-> ret, pares |-> n, antes |-> antes]

SinLlamadaIA == LlamadaIA("", "", 0, [predictor |-> PredictorNuevo, corrida |-> SinCorrida])

(***************************************************************************)
(* The patient selected and the birth date of the form.                    *)
(***************************************************************************)
SinPaciente == [id |-> "", nombre |-> <<>>, fecha_nacimiento |-> [ano |-> 0, mes |-> 0, dia |-> 0]]

SinFecha == [ano |-> 0, mes |-> 0, dia |-> 0]

ConvEnReposo == data = DatosMin /\ ult_edad = SinEdad /\ ult_puntaje = SinPuntaje

CompEnReposo ==
    tablas_compuestos = SinTablas /\ ult_compuesto = SinCompuesto /\ ant_compuesto = SinCompuesto

CITEnReposo == tabla_cit = SinTablaCIT /\ ult_cit = SinCIT

\* the form as crear_interfaz leaves it, nothing typed
FormularioVacio ==
    /\ etiquetas = [sub \in ConjSubpruebasUI |-> <<>>]
    /\ filas_compuestos = [abrev \in Abreviaturas |-> FilaLimpia]
    /\ resultados_actuales = <<>>
    /\ mensajes = <<>>
    /\ ult_op = ""
    /\ ediciones = 0

AppEnReposo ==
    /\ conversor = "WISCConverter"
    /\ edad_calculada = SinEdadCalculada
    /\ nombre_entry = <<>>
    /\ nivel_confianza = "95%"
    /\ entradas = [sub \in ConjSubpruebasUI |-> <<>>]
    /\ FormularioVacio

BDEnReposo ==
    /\ pacientes = <<>> /\ evaluaciones = <<>> /\ reloj = 0
    /\ ult_bd = SinLlamadaBD /\ ant_bd = BD(<<>>, <<>>) /\ conexiones = 0

ArranqueEnReposo ==
    archivos = SinArchivos /\ fase = "en marcha" /\ TABLAS_WISCV = SinImportar

IAEnReposo ==
    /\ SKLEARN_AVAILABLE = TRUE /\ pares = 0 /\ predictor = PredictorNuevo
    /\ corrida = SinCorrida /\ ult_ia = SinLlamadaIA

GuardarEnReposo ==
    paciente_actual = SinPaciente /\ fecha_var = SinFecha /\ edad_desde_limpieza = FALSE

OtrosEnReposo ==
    CITEnReposo /\ AppEnReposo /\ BDEnReposo /\ ArranqueEnReposo /\ IAEnReposo /\ GuardarEnReposo

(***************************************************************************)
(* Age band resolution alone: the caller's age string is resolved.         *)
(***************************************************************************)
InitEdad ==
    /\ data = DatosMin
    /\ ult_edad \in { EdadPendiente(e) : e \in EdadesTodas }
    /\ ult_puntaje = SinPuntaje
    /\ CompEnReposo
    /\ OtrosEnReposo

ResolverEdad ==
    /\ ~ult_edad.hecha
    /\ ult_edad' = [ult_edad EXCEPT !.hecha = TRUE,
                                    !.res = convertir_edad_a_grupo(ult_edad.edad.texto)]
    /\ UNCHANGED <<data, ult_puntaje>>
    /\ UNCHANGED compVars
    /\ UNCHANGED otrosVars

NextEdad == ResolverEdad

SpecEdad == InitEdad /\ [][NextEdad]_vars

(***************************************************************************)
(* Raw -> scaled conversion over the loaded data.                          *)
(***************************************************************************)
InitPuntaje ==
    /\ data \in DatosPosibles
    /\ ult_edad = SinEdad
    /\ ult_puntaje \in { PuntajePendiente(e, sub, p) :
                            e \in EdadesPuntaje, sub \in SubpruebasPedidas, p \in PuntajesBrutos }
    /\ CompEnReposo
    /\ OtrosEnReposo

ConvertirPuntaje ==
    /\ ~ult_puntaje.hecha
    /\ ult_puntaje' = [ult_puntaje EXCEPT
                          !.hecha = TRUE,
                          !.res = convertir_puntaje(data, ult_puntaje.edad.texto,
                                                    ult_puntaje.subprueba, ult_puntaje.puntaje_bruto)]
    /\ UNCHANGED <<data, ult_edad>>
    /\ UNCHANGED compVars
    /\ UNCHANGED otrosVars

NextPuntaje == ConvertirPuntaje

SpecPuntaje == InitPuntaje /\ [][NextPuntaje]_vars

(***************************************************************************)
(* The lookup inside a band's table: every table of the bounds, for the    *)
(* subtests of the catalogue and the ages of the loaded bands.             *)
(***************************************************************************)
InitTabla ==
    /\ data \in DatosDeTablas
    /\ ult_edad = SinEdad
    /\ ult_puntaje \in { PuntajePendiente(e, sub, p) :
                            e \in EdadesDeTablas, sub \in {"CC", "IN"}, p \in PuntajesBrutos }
    /\ CompEnReposo
    /\ OtrosEnReposo

SpecTabla == InitTabla /\ [][NextPuntaje]_vars

(***************************************************************************)
(* Scaled sum -> composite conversion: two conversions against the loaded  *)
(* tables, the earlier one (ant_compuesto) for a sum not above the later   *)
(* one's (ult_compuesto) when both ask for the same index.                 *)
(***************************************************************************)
InitCompuesto ==
    /\ data = DatosMin
    /\ ult_edad = SinEdad
    /\ ult_puntaje = SinPuntaje
    /\ OtrosEnReposo
    /\ tablas_compuestos \in TablasCompuestosPosibles
    /\ \E esc \in EscalasPedidas, s1 \in SumasPedidas, s2 \in SumasPedidas :
          /\ IF esc = "ICV" THEN s1 <= s2 ELSE s1 = s2
          /\ ant_compuesto = CompuestoPendiente("ICV", s1)
          /\ ult_compuesto = CompuestoPendiente(esc, s2)

ConvertirCompuestoAnterior ==
    /\ ~ant_compuesto.hecha
    /\ ant_compuesto' = [ant_compuesto EXCEPT
                           !.hecha = TRUE,
                           !.res = convertir_compuesto(tablas_compuestos, ant_compuesto.escala_abrev,
                                                       ant_compuesto.suma_escalar)]
    /\ UNCHANGED <<tablas_compuestos, ult_compuesto>>
    /\ UNCHANGED convVars
    /\ UNCHANGED otrosVars

ConvertirCompuesto ==
    /\ ant_compuesto.hecha
    /\ ~ult_compuesto.hecha
    /\ ult_compuesto' = [ult_compuesto EXCEPT
                           !.hecha = TRUE,
                           !.res = convertir_compuesto(tablas_compuestos, ult_compuesto.escala_abrev,
                                                       ult_compuesto.suma_escalar)]
    /\ UNCHANGED <<tablas_compuestos, ant_compuesto>>
    /\ UNCHANGED convVars
    /\ UNCHANGED otrosVars

NextCompuesto == ConvertirCompuestoAnterior \/ ConvertirCompuesto

SpecCompuesto == InitCompuesto /\ [][NextCompuesto]_vars

(***************************************************************************)
(* Sum of seven scaled scores -> CIT over the loaded CIT table.            *)
(***************************************************************************)
InitCIT ==
    /\ IAEnReposo
    /\ GuardarEnReposo
    /\ ConvEnReposo
    /\ CompEnReposo
    /\ AppEnReposo
    /\ BDEnReposo
    /\ ArranqueEnReposo
    /\ tabla_cit \in TablasCIT
    /\ ult_cit \in { CITPendiente(s) : s \in SumasPedidas }

ConvertirCIT ==
    /\ ~ult_cit.hecha
    /\ ult_cit' = [ult_cit EXCEPT !.hecha = TRUE,
                                  !.res = convertir_cit(tabla_cit, ult_cit.suma_escalar)]
    /\ UNCHANGED tabla_cit
    /\ UNCHANGED <<convVars, compVars, appVars, bdVars, arrVars, iaVars, guardarVars>>

NextCIT == ConvertirCIT

SpecCIT == InitCIT /\ [][NextCIT]_vars

(***************************************************************************)
(* The score form of WiscVApp: the user clears entries and presses         *)
(* 'Calcular puntajes' and 'Calcular compuestos' in any order.             *)
(***************************************************************************)
InitApp ==
    /\ IAEnReposo
    /\ GuardarEnReposo
    /\ \E ent \in Entornos, es \in EntradasPosibles :
          /\ (ent = EntornoUsual \/ es \in EntradasIguales)
          /\ conversor = ent.conversor
          /\ edad_calculada = ent.edad_calculada
          /\ nombre_entry = ent.nombre_entry
          /\ nivel_confianza = ent.nivel_confianza
          /\ data = ent.data
          /\ tablas_compuestos = ent.tablas_compuestos
          /\ tabla_cit = ent.tabla_cit
          /\ entradas = es
    /\ FormularioVacio
    /\ ult_edad = SinEdad
    /\ ult_puntaje = SinPuntaje
    /\ ult_compuesto = SinCompuesto
    /\ ant_compuesto = SinCompuesto
    /\ ult_cit = SinCIT
    /\ BDEnReposo
    /\ ArranqueEnReposo

appFijas == <<conversor, edad_calculada, nombre_entry, nivel_confianza, data, ult_edad, ult_puntaje,
              tablas_compuestos, ult_compuesto, ant_compuesto, tabla_cit, bdVars, arrVars,
              iaVars, guardarVars>>

\* the user empties one entry of the form
EditarEntrada ==
    /\ ediciones < MaxEdiciones
    /\ \E sub \in SubpruebasVariadas :
          /\ entradas[sub] # <<>>
          /\ entradas' = [entradas EXCEPT ![sub] = <<>>]
    /\ ediciones' = ediciones + 1
    /\ ult_op' = "editar"
    /\ mensajes' = <<>>
    /\ UNCHANGED <<etiquetas, filas_compuestos, resultados_actuales, ult_cit>>
    /\ UNCHANGED appFijas

\* lines 2130-2219
CalcularPuntajes ==
    /\ ult_op' = "calcular_puntajes"
    /\ IF ~edad_calculada.calculada
       THEN /\ mensajes' = << Mensaje("showerror", "Error", <<"Primero calcula la edad del paciente">>) >>
            /\ UNCHANGED etiquetas
       ELSE IF nombre_entry = <<>>
       THEN /\ mensajes' = << Mensaje("showerror", "Error", <<"Por favor ingresa el nombre del paciente">>) >>
            /\ UNCHANGED etiquetas
       ELSE IF conversor = "None"
       THEN /\ mensajes' = << Mensaje("showerror", "Error",
                                      <<"No se pudo cargar el conversor de puntajes escala">>) >>
            /\ UNCHANGED etiquetas
       ELSE LET filas == [sub \in ConjSubpruebasUI |->
                            ProcesarSubprueba(data, edad_calculada.edad.texto, sub, entradas[sub])]
                subpruebas_calculadas == Cardinality({sub \in ConjSubpruebasUI : filas[sub].calculada})
            IN  /\ etiquetas' = [sub \in ConjSubpruebasUI |-> filas[sub].label]
                /\ mensajes' = << ResumenPuntajes(subpruebas_calculadas, ErroresDesde(filas, 1)) >>
    /\ UNCHANGED <<entradas, filas_compuestos, resultados_actuales, ediciones, ult_cit>>
    /\ UNCHANGED appFijas

\* lines 2221-2307
CalcularPuntajesCompuestos ==
    /\ ult_op' = "calcular_puntajes_compuestos"
    /\ LET puntajes_escalares == PuntajesEscalares(etiquetas)
           escalas == CalcularEscalas(tablas_compuestos, tabla_cit, puntajes_escalares,
                                      nivel_confianza)
       IN  IF DOMAIN puntajes_escalares = {}
           THEN /\ mensajes' = << Mensaje("showwarning", "Advertencia",
                    <<"Primero calcula los puntajes escala antes de calcular los compuestos">>) >>
                /\ ult_cit' = SinCIT
                /\ UNCHANGED <<filas_compuestos, resultados_actuales>>
           ELSE /\ filas_compuestos' = [abrev \in Abreviaturas |-> escalas[abrev].fila]
                /\ resultados_actuales' =
                      [abrev \in {a \in Abreviaturas : escalas[a].guardado} |->
                          escalas[abrev].compuesto]
                /\ ult_cit' = IF escalas["CIT"].llamada
                              THEN [hecha |-> TRUE, suma_escalar |-> escalas["CIT"].suma,
                                    res |-> convertir_cit(tabla_cit, escalas["CIT"].suma)]
                              ELSE SinCIT
                /\ mensajes' = << Mensaje("showinfo", "Éxito",
                                          <<"Puntajes compuestos calculados correctamente">>) >>
    /\ UNCHANGED <<entradas, etiquetas, ediciones>>
    /\ UNCHANGED appFijas

NextApp == EditarEntrada \/ CalcularPuntajes \/ CalcularPuntajesCompuestos

SpecApp == InitApp /\ [][NextApp]_vars

(***************************************************************************)
(* The store of DatabaseManager under the calls the application makes.     *)
(***************************************************************************)
InitBD ==
    /\ IAEnReposo
    /\ GuardarEnReposo
    /\ ConvEnReposo
    /\ CompEnReposo
    /\ CITEnReposo
    /\ AppEnReposo
    /\ ArranqueEnReposo
    /\ \E bd \in BDsIniciales :
          /\ BDConsistente(bd)
          /\ pacientes = bd.pacientes
          /\ evaluaciones = bd.evaluaciones
          /\ ant_bd = bd
    /\ reloj = 0
    /\ ult_bd = SinLlamadaBD
    /\ conexiones = 0

bdFijas == <<convVars, compVars, citVars, appVars, arrVars, iaVars, guardarVars>>

\* lines 109-132: the connections left open by the statements of a call.
\* A statement that succeeds closes its connection (line 125). One that
\* raises goes to the except clause, which returns the failure value and
\* never closes (lines 128-132): its connection is closed only if the
\* runtime collects the abandoned object, or was never opened when connect
\* itself raised; recogidas counts these.
ConexionesTras(abiertas, fallos, recogidas) == abiertas + fallos - recogidas

Escribir(op, arg, r, fallos) ==
    /\ \E recogidas \in 0..fallos :
          conexiones' = ConexionesTras(conexiones, fallos, recogidas)
    /\ pacientes' = r.bd.pacientes
    /\ evaluaciones' = r.bd.evaluaciones
    /\ reloj' = reloj + 1
    /\ ult_bd' = LlamadaBD(op, arg, r.ret)
    /\ ant_bd' = BD(pacientes, evaluaciones)
    /\ UNCHANGED bdFijas

AgregarPaciente(paciente_id) ==
    /\ reloj < MaxOperaciones
    /\ \E falla \in BOOLEAN :
          LET r == agregar_paciente(BD(pacientes, evaluaciones), paciente_id, "Ana",
                                    reloj + 1, falla)
          IN  Escribir("agregar_paciente", paciente_id, r, IF r.ret = "None" THEN 1 ELSE 0)

ActualizarPaciente(paciente_id) ==
    /\ reloj < MaxOperaciones
    /\ \E falla \in BOOLEAN, nom \in NombresPacientes :
          Escribir("actualizar_paciente", paciente_id,
                   actualizar_paciente(BD(pacientes, evaluaciones), paciente_id, nom, falla),
                   IF falla THEN 1 ELSE 0)

EliminarPaciente(paciente_id) ==
    /\ reloj < MaxOperaciones
    /\ \E falla_eval \in BOOLEAN, falla_pac \in BOOLEAN :
          Escribir("eliminar_paciente", paciente_id,
                   eliminar_paciente(BD(pacientes, evaluaciones), paciente_id, falla_eval, falla_pac),
                   (IF falla_eval THEN 1 ELSE 0) + (IF falla_pac THEN 1 ELSE 0))

AgregarEvaluacion(paciente_id) ==
    /\ reloj < MaxOperaciones
    /\ \E falla \in BOOLEAN, falla_2 \in BOOLEAN, evaluacion_id \in IdsEvaluaciones,
          datos \in DatosEvaluacion :
          LET r == agregar_evaluacion(BD(pacientes, evaluaciones), evaluacion_id, paciente_id,
                                      datos, reloj + 1, falla, falla_2)
          IN  /\ pacientes' = r.bd.pacientes
              /\ evaluaciones' = r.bd.evaluaciones
              /\ ult_bd' = [LlamadaBD("agregar_evaluacion", paciente_id, r.ret)
                              EXCEPT !.pasadas = r.pasadas]
              /\ \E recogidas \in 0..r.fallos :
                    conexiones' = ConexionesTras(conexiones, r.fallos, recogidas)
    /\ reloj' = reloj + 1
    /\ ant_bd' = BD(pacientes, evaluaciones)
    /\ UNCHANGED bdFijas

\* reading an evaluation (loading it into the form, charting, training)
ObtenerEvaluacion ==
    /\ \E evaluacion_id \in IdsEvaluaciones :
          ult_bd' = LlamadaBD("obtener_evaluacion", evaluacion_id,
                              obtener_evaluacion(BD(pacientes, evaluaciones), evaluacion_id))
    /\ ant_bd' = BD(pacientes, evaluaciones)
    /\ UNCHANGED <<pacientes, evaluaciones, reloj, conexiones>>
    /\ UNCHANGED bdFijas

NextBD ==
    \/ \E paciente_id \in IdsPacientes :
          \/ AgregarPaciente(paciente_id)
          \/ ActualizarPaciente(paciente_id)
          \/ EliminarPaciente(paciente_id)
          \/ AgregarEvaluacion(paciente_id)
    \/ ObtenerEvaluacion

SpecBD == InitBD /\ [][NextBD]_vars

(***************************************************************************)
(* The start of the program: python main.py imports conversor, main()      *)
(* builds WiscVApp, and a first raw score is converted.                    *)
(***************************************************************************)
PuntajesDeArranque ==
    { PuntajePendiente(e, sub, p) :
        e \in {Edad(8, 6), Edad(PrimerAnio, 0)}, sub \in {"CC", "XX"}, p \in PuntajesBrutos }

InitArranque ==
    /\ IAEnReposo
    /\ GuardarEnReposo
    /\ archivos \in [converter : BOOLEAN, datos : ArchivosDeDatos,
                      compuestos : ArchivosDeCompuestos, cit : ArchivosDeCIT, tablas : Carpetas]
    /\ fase = "inicio"
    /\ TABLAS_WISCV = SinImportar
    /\ conversor = "sin definir"
    /\ data = <<>>
    /\ ult_edad = SinEdad
    /\ ult_puntaje \in PuntajesDeArranque
    /\ CompEnReposo
    /\ CITEnReposo
    /\ BDEnReposo
    /\ edad_calculada = SinEdadCalculada
    /\ nombre_entry = <<>>
    /\ nivel_confianza = "95%"
    /\ entradas = [sub \in ConjSubpruebasUI |-> <<>>]
    /\ FormularioVacio

arrFijas == <<ult_edad, ult_compuesto, ant_compuesto, ult_cit, edad_calculada, nombre_entry,
              nivel_confianza, entradas, etiquetas, filas_compuestos, resultados_actuales,
              mensajes, ult_op, ediciones, bdVars, archivos, iaVars, guardarVars>>

\* main.py lines 18-23
ImportarConversor ==
    /\ fase = "inicio"
    /\ LET r == ImportarConversorDe(archivos.converter, archivos.datos)
       IN  /\ fase' = IF r.termina THEN "terminado" ELSE "importado"
           /\ conversor' = r.conversor
           /\ data' = r.data
    /\ UNCHANGED <<ult_puntaje, tablas_compuestos, tabla_cit, TABLAS_WISCV>>
    /\ UNCHANGED arrFijas

\* main.py lines 3240-3267 with WiscVApp.__init__ (lines 915-941)
IniciarAplicacion ==
    /\ fase = "importado"
    /\ fase' = "en marcha"
    /\ tablas_compuestos' = cargar_tablas_compuestos(archivos.compuestos)
    /\ tabla_cit' = cargar_tabla_cit(archivos.cit)
    /\ UNCHANGED <<conversor, data, ult_puntaje, TABLAS_WISCV>>
    /\ UNCHANGED arrFijas

\* the first conversion asked of the converter once the window is up
ConvertirTrasArranque ==
    /\ fase = "en marcha"
    /\ conversor # "None"
    /\ ~ult_puntaje.hecha
    /\ ult_puntaje' = [ult_puntaje EXCEPT
                          !.hecha = TRUE,
                          !.res = convertir_puntaje(data, ult_puntaje.edad.texto,
                                                    ult_puntaje.subprueba, ult_puntaje.puntaje_bruto)]
    /\ UNCHANGED <<conversor, data, fase, tablas_compuestos, tabla_cit, TABLAS_WISCV>>
    /\ UNCHANGED arrFijas

\* tablas_wiscv.py line 85, run when the module data/tablas_wiscv.py is
\* imported; main.py and core/converter.py do not import it
ImportarTablasWiscv ==
    /\ TABLAS_WISCV = SinImportar
    /\ TABLAS_WISCV' = [importado |-> TRUE, tablas |-> cargar_tablas_completas(archivos.tablas)]
    /\ UNCHANGED <<conversor, data, fase, ult_puntaje, tablas_compuestos, tabla_cit>>
    /\ UNCHANGED arrFijas

NextArranque ==
    \/ ImportarConversor
    \/ IniciarAplicacion
    \/ ConvertirTrasArranque
    \/ ImportarTablasWiscv

SpecArranque == InitArranque /\ [][NextArranque]_vars

(***************************************************************************)
(* The tables of data/tablas_wiscv.py, loaded when the module is imported, *)
(* and one conversion against them (debug_converter.py).                   *)
(***************************************************************************)
PuntajesConTablas ==
    { PuntajePendiente(e, sub, p) :
        e \in {Edad(8, 6), Edad(8, 11), Edad(9, 0)}, sub \in {"CC", "BAL", "AN"},
        p \in 0..MaxBrutoTablas }

InitTablasWiscv ==
    /\ IAEnReposo
    /\ GuardarEnReposo
    /\ data = DatosMin
    /\ ult_edad = SinEdad
    /\ ult_puntaje \in PuntajesConTablas
    /\ CompEnReposo
    /\ CITEnReposo
    /\ AppEnReposo
    /\ BDEnReposo
    /\ \E c \in Carpetas : archivos = [SinArchivos EXCEPT !.tablas = c]
    /\ fase = "en marcha"
    /\ TABLAS_WISCV = SinImportar

\* debug_converter.py lines 56-58
ConvertirPuntajeConTablas ==
    /\ TABLAS_WISCV.importado
    /\ ~ult_puntaje.hecha
    /\ ult_puntaje' = [ult_puntaje EXCEPT
                          !.hecha = TRUE,
                          !.res = ConvertirConTablas(TABLAS_WISCV.tablas, ult_puntaje.edad.texto,
                                                     ult_puntaje.subprueba,
                                                     ult_puntaje.puntaje_bruto)]
    /\ UNCHANGED <<conversor, data, fase, tablas_compuestos, tabla_cit, TABLAS_WISCV>>
    /\ UNCHANGED arrFijas

NextTablasWiscv ==
    \/ ImportarTablasWiscv
    \/ ConvertirPuntajeConTablas

SpecTablasWiscv == InitTablasWiscv /\ [][NextTablasWiscv]_vars

(***************************************************************************)
(* The predictor under the calls of the application, while evaluations are *)
(* saved and patients deleted.                                             *)
(***************************************************************************)
InitIA ==
    /\ ConvEnReposo
    /\ CompEnReposo
    /\ CITEnReposo
    /\ AppEnReposo
    /\ BDEnReposo
    /\ ArranqueEnReposo
    /\ GuardarEnReposo
    /\ SKLEARN_AVAILABLE \in BOOLEAN
    /\ pares \in 0..MaxPares
    /\ predictor = PredictorNuevo
    /\ corrida = SinCorrida
    /\ ult_ia = SinLlamadaIA

iaFijas == <<convVars, compVars, citVars, appVars, bdVars, arrVars, guardarVars, SKLEARN_AVAILABLE>>

Antes == [predictor |-> predictor, corrida |-> corrida]

\* the store gains or loses evaluations between two calls
CambiarPares ==
    /\ \E n \in 0..MaxPares : n # pares /\ pares' = n
    /\ UNCHANGED <<predictor, corrida, ult_ia>>
    /\ UNCHANGED iaFijas

\* line 3227
EntrenarModelos ==
    /\ \E lanza \in BOOLEAN :
          LET r == entrenar_modelos(predictor, SKLEARN_AVAILABLE, pares, lanza)
          IN  /\ predictor' = r.predictor
              /\ corrida' = [resultado |-> r.corrida, pares |-> pares]
              /\ ult_ia' = LlamadaIA("entrenar_modelos", r.ret, pares, Antes)
    /\ UNCHANGED pares
    /\ UNCHANGED iaFijas

\* line 3123
PredecirEvolucion ==
    /\ \E lanza \in BOOLEAN, con_evaluaciones \in BOOLEAN, lanza_p \in BOOLEAN :
          LET r == predecir_evolucion(predictor, SKLEARN_AVAILABLE, pares, lanza,
                                      con_evaluaciones, lanza_p)
          IN  /\ predictor' = r.predictor
              /\ corrida' = IF r.corrida = "ninguna" THEN corrida
                            ELSE [resultado |-> r.corrida, pares |-> pares]
              /\ ult_ia' = LlamadaIA("predecir_evolucion", r.ret, pares, Antes)
    /\ UNCHANGED pares
    /\ UNCHANGED iaFijas

\* lines 3140 and 3228
ObtenerEstadisticas ==
    /\ ult_ia' = LlamadaIA("obtener_estadisticas_modelo",
                           obtener_estadisticas_modelo(predictor), pares, Antes)
    /\ UNCHANGED <<pares, predictor, corrida>>
    /\ UNCHANGED iaFijas

NextIA == CambiarPares \/ EntrenarModelos \/ PredecirEvolucion \/ ObtenerEstadisticas

SpecIA == InitIA /\ [][NextIA]_vars

(***************************************************************************)
(* The evaluation form of WiscVApp with the patient list and the store:    *)
(* the user selects patients, types a name and raw scores, calculates the  *)
(* age and the scaled scores, loads a stored evaluation (with its          *)
(* composites), clears the form, deletes the patient and saves, in any     *)
(* order.                                                                  *)
(***************************************************************************)
\* date.today()
HOY == [ano |-> 2024, mes |-> 6, dia |-> 15]

Fecha(ano, mes, dia) == [ano |-> ano, mes |-> mes, dia |-> dia]

\* the days of a month, as date(ano, mes, dia) checks them
DiasDelMes(ano, mes) ==
    IF mes = 2
    THEN (IF ano % 4 = 0 /\ (ano % 100 # 0 \/ ano % 400 = 0) THEN 29 ELSE 28)
    ELSE IF mes \in {4, 6, 9, 11} THEN 30 ELSE 31

\* lines 2064-2128: the age calculated from the date fields, or the error
\* shown; relativedelta(hoy, fecha_nacimiento) gives whole years and months
calcular_edad_actual(fecha, hoy) ==
    IF fecha = SinFecha
    THEN [ok |-> FALSE, edad |-> SinEdadCalculada,
          msg |-> <<"Por favor completa todos los campos de fecha">>]
    ELSE IF \/ ~(1 <= fecha.dia /\ fecha.dia <= 31)
            \/ ~(1 <= fecha.mes /\ fecha.mes <= 12)
            \/ ~(1900 <= fecha.ano /\ fecha.ano <= 2100)
    THEN [ok |-> FALSE, edad |-> SinEdadCalculada,
          msg |-> <<"Fecha inválida. Usa formato: DD/MM/AAAA">>]
    ELSE IF fecha.dia > DiasDelMes(fecha.ano, fecha.mes)
    THEN [ok |-> FALSE, edad |-> SinEdadCalculada,
          msg |-> <<"Fecha inválida. Usa formato numérico: DD/MM/AAAA">>]
    ELSE IF \/ fecha.ano > hoy.ano
            \/ (fecha.ano = hoy.ano /\ fecha.mes > hoy.mes)
            \/ (fecha.ano = hoy.ano /\ fecha.mes = hoy.mes /\ fecha.dia > hoy.dia)
    THEN [ok |-> FALSE, edad |-> SinEdadCalculada,
          msg |-> <<"La fecha de nacimiento no puede ser futura">>]
    ELSE LET total == (hoy.ano - fecha.ano) * 12 + (hoy.mes - fecha.mes)
                        - (IF hoy.dia < fecha.dia THEN 1 ELSE 0)
         IN  [ok |-> TRUE, edad |-> EdadCalculada(Edad(total \div 12, total % 12)),
              msg |-> <<>>]

\* lines 2682-2692: the subtests whose label holds a scaled score
SubpruebasConResultado(etqs) ==
    {sub \in ConjSubpruebasUI :
        /\ etqs[sub] # <<>>
        /\ etqs[sub] \notin {<<"Inválido">>, <<"Error">>}
        /\ IntValido(etqs[sub])}

\* lines 2695-2706: the scales whose row holds a composite score
EscalasConResultado(filas) ==
    {abrev \in Abreviaturas : filas[abrev].compuesto # <<>> /\ IntValido(filas[abrev].compuesto)}

\* lines 2661-2708; the raw score is the text of the entry at this moment,
\* the scaled score the text of the label ('nombre' is left out)
recolectar_datos_evaluacion(edad, ents, etqs, filas, nivel, ahora) ==
    Dicc([k \in {"fecha", "edad_paciente", "subpruebas", "compuestos", "nivel_confianza"} |->
        IF k = "fecha" THEN Atomo("str", ahora)
        ELSE IF k = "nivel_confianza" THEN Atomo("str", nivel)
        ELSE IF k = "edad_paciente"
        THEN (IF edad.calculada
              THEN Dicc([c \in {"años", "meses", "edad_formato"} |->
                          IF c = "años" THEN Atomo("int", edad.edad.anios)
                          ELSE IF c = "meses" THEN Atomo("int", edad.edad.meses)
                          ELSE Atomo("str", edad.edad.texto)])
              ELSE Dicc(<<>>))
        ELSE IF k = "subpruebas"
        THEN Dicc([sub \in SubpruebasConResultado(etqs) |->
                    Dicc([c \in {"escalar", "bruto"} |->
                            IF c = "escalar" THEN Atomo("int", IntDe(etqs[sub]))
                            ELSE Atomo("str", ents[sub])])])
        ELSE Dicc([abrev \in EscalasConResultado(filas) |->
                    Dicc([c \in {"suma_escalar", "compuesto", "percentil", "intervalo_confianza"} |->
                            IF c = "suma_escalar" THEN Atomo("str", filas[abrev].suma)
                            ELSE IF c = "compuesto" THEN Atomo("int", IntDe(filas[abrev].compuesto))
                            ELSE IF c = "percentil" THEN Atomo("str", filas[abrev].percentil)
                            ELSE Atomo("str", filas[abrev].confianza)])])])

\* the guards of guardar_evaluacion without the test of the age
guardia_guardar_sin_edad(paciente, edad, datos) ==
    IF paciente = SinPaciente THEN <<"Primero selecciona un paciente">>
    ELSE IF /\ DOMAIN datos.hijos["subpruebas"].hijos = {}
            /\ DOMAIN datos.hijos["compuestos"].hijos = {}
    THEN <<"No hay datos calculados para guardar">>
    ELSE <<>>

\* lines 2601-2615: the message guardar_evaluacion returns on, <<>> when it
\* goes on to write
guardia_guardar(paciente, edad, datos) ==
    IF paciente = SinPaciente THEN <<"Primero selecciona un paciente">>
    ELSE IF ~edad.calculada THEN <<"Primero calcula la edad del paciente">>
    ELSE IF /\ DOMAIN datos.hijos["subpruebas"].hijos = {}
            /\ DOMAIN datos.hijos["compuestos"].hijos = {}
    THEN <<"No hay datos calculados para guardar">>
    ELSE <<>>

\* lines 201-210: the row of the patient as a dict, None when there is none
obtener_paciente(bd, paciente_id) ==
    IF paciente_id \in DOMAIN bd.pacientes
    THEN [id |-> paciente_id, nombre |-> bd.pacientes[paciente_id].nombre,
          fecha_nacimiento |-> bd.pacientes[paciente_id].fecha_nacimiento]
    ELSE SinPaciente

\* the table of the form with a second age band, 7:0-7:5, where raw 1-2
\* gives scaled 3 and raw 3-4 scaled 4
DatosGuardar ==
    [subpruebas |-> ConjSubpruebasUI,
     grupos_etarios |->
        [g \in {"8_6_8_11", "7_0_7_5"} |->
            [tabla |-> IF g = "8_6_8_11"
                       THEN <<FilaApp(1, ConjSubpruebasUI), FilaApp(2, ConjSubpruebasUI)>>
                       ELSE <<[FilaApp(1, ConjSubpruebasUI) EXCEPT !.puntaje_escala = 3],
                              [FilaApp(2, ConjSubpruebasUI) EXCEPT !.puntaje_escala = 4]>>]]]

\* two patients, aged 8:6 and 7:0 today
PacientesGuardar ==
    [id \in IdsPacientes |->
        IF id = "0a1b2c3d"
        THEN [nombre |-> <<"A">>, fecha_registro |-> 0, fecha_nacimiento |-> Fecha(2015, 12, 10)]
        ELSE [nombre |-> <<"B">>, fecha_registro |-> 0, fecha_nacimiento |-> Fecha(2017, 6, 1)]]

\* the evaluation of the first patient stored before: raw 1 of AN at 8:6,
\* with the ICV calculated from it
EvaluacionPrevia ==
    [paciente_id |-> "0a1b2c3d", fecha_evaluacion |-> 0,
     datos_evaluacion |->
        datos_json(recolectar_datos_evaluacion(
            EdadCalculada(Edad(8, 6)),
            [sub \in ConjSubpruebasUI |-> IF sub = "AN" THEN Str(1) ELSE <<>>],
            [sub \in ConjSubpruebasUI |-> IF sub = "AN" THEN Str(1) ELSE <<>>],
            [abrev \in Abreviaturas |->
                IF abrev = "ICV"
                THEN CalcularEscala(TablasCompuestosApp(IndicesJSON), "ICV",
                                    [sub \in {"AN"} |-> 1], "95%").fila
                ELSE FilaLimpia],
            "95%", 0))]

\* the subtest whose entry the user types in, and what is typed
SubpruebasTecleadas == {"AN"}

PuntajesTecleados == {<<>>, Str(1)}

InitGuardar ==
    /\ IAEnReposo
    /\ ArranqueEnReposo
    /\ conversor = "WISCConverter"
    /\ edad_calculada = SinEdadCalculada
    /\ nombre_entry = <<>>
    /\ nivel_confianza = "95%"
    /\ entradas = [sub \in ConjSubpruebasUI |-> <<>>]
    /\ FormularioVacio
    /\ data = DatosGuardar
    /\ tablas_compuestos = TablasCompuestosApp(IndicesJSON)
    /\ tabla_cit = TablaCITApp
    /\ ult_edad = SinEdad
    /\ ult_puntaje = SinPuntaje
    /\ ult_compuesto = SinCompuesto
    /\ ant_compuesto = SinCompuesto
    /\ ult_cit = SinCIT
    /\ pacientes = PacientesGuardar
    /\ evaluaciones = [k \in {"8c9d0e1f"} |-> EvaluacionPrevia]
    /\ reloj = 0
    /\ ult_bd = SinLlamadaBD
    /\ ant_bd = BD(PacientesGuardar, [k \in {"8c9d0e1f"} |-> EvaluacionPrevia])
    /\ conexiones = 0
    /\ paciente_actual = SinPaciente
    /\ fecha_var = SinFecha
    /\ edad_desde_limpieza = FALSE

guardarFijas == <<conversor, nivel_confianza, data, ult_edad, ult_puntaje, tablas_compuestos,
                  ult_compuesto, ant_compuesto, tabla_cit, ult_cit, ediciones, arrVars, iaVars>>

\* lines 2064-2128 on the date in the fields
EdadCalculadaTras(fecha) ==
    LET r == calcular_edad_actual(fecha, HOY)
    IN  /\ edad_calculada' = IF r.ok THEN r.edad ELSE edad_calculada
        /\ edad_desde_limpieza' = (r.ok \/ edad_desde_limpieza)
        /\ mensajes' = IF r.ok THEN <<>> ELSE << Mensaje("showerror", "Error", r.msg) >>

\* lines 1574-1585 with cargar_datos_paciente_formulario, lines 1661-1677; the
\* list may show a patient the store no longer has
SeleccionarPaciente ==
    /\ \E paciente_id \in IdsPacientes :
          LET paciente == obtener_paciente(BD(pacientes, evaluaciones), paciente_id)
          IN  /\ paciente_actual' = paciente
              /\ IF paciente = SinPaciente
                 THEN /\ mensajes' = <<>>
                      /\ UNCHANGED <<nombre_entry, fecha_var, edad_calculada, edad_desde_limpieza>>
                 ELSE /\ nombre_entry' = paciente.nombre
                      /\ fecha_var' = paciente.fecha_nacimiento
                      /\ EdadCalculadaTras(paciente.fecha_nacimiento)
    /\ ult_op' = "seleccionar_paciente"
    /\ UNCHANGED <<entradas, etiquetas, filas_compuestos, resultados_actuales>>
    /\ UNCHANGED bdVars
    /\ UNCHANGED guardarFijas

\* the user types a name in the empty field, or types a raw score or
\* empties the entry
Teclear ==
    /\ \/ /\ nombre_entry = <<>> /\ nombre_entry' = <<"A">>
          /\ UNCHANGED entradas
       \/ /\ \E sub \in SubpruebasTecleadas, t \in PuntajesTecleados :
                /\ t # entradas[sub]
                /\ entradas' = [entradas EXCEPT ![sub] = t]
          /\ UNCHANGED nombre_entry
    /\ ult_op' = "editar"
    /\ mensajes' = <<>>
    /\ UNCHANGED <<paciente_actual, fecha_var, edad_calculada,
                   edad_desde_limpieza, etiquetas, filas_compuestos, resultados_actuales>>
    /\ UNCHANGED bdVars
    /\ UNCHANGED guardarFijas

\* lines 2064-2128
CalcularEdad ==
    /\ EdadCalculadaTras(fecha_var)
    /\ ult_op' = "calcular_edad_actual"
    /\ UNCHANGED <<paciente_actual, fecha_var, nombre_entry, entradas, etiquetas,
                   filas_compuestos, resultados_actuales>>
    /\ UNCHANGED bdVars
    /\ UNCHANGED guardarFijas

\* lines 2566-2596: what limpiar_formulario leaves
FormularioLimpiado ==
    /\ nombre_entry' = <<>>
    /\ fecha_var' = SinFecha
    /\ edad_calculada' = SinEdadCalculada
    /\ edad_desde_limpieza' = FALSE
    /\ entradas' = [sub \in ConjSubpruebasUI |-> <<>>]
    /\ etiquetas' = [sub \in ConjSubpruebasUI |-> <<>>]
    /\ filas_compuestos' = [abrev \in Abreviaturas |-> FilaLimpia]
    /\ resultados_actuales' = <<>>
    /\ mensajes' = << Mensaje("showinfo", "Listo", <<"Formulario limpiado correctamente">>) >>

LimpiarFormulario ==
    /\ FormularioLimpiado
    /\ ult_op' = "limpiar_formulario"
    /\ UNCHANGED paciente_actual
    /\ UNCHANGED bdVars
    /\ UNCHANGED guardarFijas

\* lines 1863-1903: an evaluation of the selected patient is loaded into
\* the form
CargarEvaluacion ==
    /\ paciente_actual # SinPaciente
    /\ \E k \in DOMAIN evaluaciones :
          /\ evaluaciones[k].paciente_id = paciente_actual.id
          /\ LET datos == evaluaciones[k].datos_evaluacion[2]
                 subpruebas == datos.hijos["subpruebas"].hijos
                 compuestos == datos.hijos["compuestos"].hijos
             IN  /\ entradas' = [sub \in ConjSubpruebasUI |->
                                   IF sub \in DOMAIN subpruebas
                                   THEN subpruebas[sub].hijos["bruto"].v ELSE entradas[sub]]
                 /\ etiquetas' = [sub \in ConjSubpruebasUI |->
                                    IF sub \in DOMAIN subpruebas
                                    THEN Str(subpruebas[sub].hijos["escalar"].v)
                                    ELSE etiquetas[sub]]
                 /\ filas_compuestos' =
                       [abrev \in Abreviaturas |->
                           IF abrev \in DOMAIN compuestos
                           THEN [suma |-> compuestos[abrev].hijos["suma_escalar"].v,
                                 compuesto |-> Str(compuestos[abrev].hijos["compuesto"].v),
                                 percentil |-> compuestos[abrev].hijos["percentil"].v,
                                 confianza |-> compuestos[abrev].hijos["intervalo_confianza"].v]
                           ELSE filas_compuestos[abrev]]
                 /\ resultados_actuales' =
                       [abrev \in (DOMAIN resultados_actuales)
                                    \cup {a \in DOMAIN compuestos :
                                             compuestos[a].hijos["compuesto"].v # 0} |->
                           IF abrev \in DOMAIN compuestos /\ compuestos[abrev].hijos["compuesto"].v # 0
                           THEN compuestos[abrev].hijos["compuesto"].v
                           ELSE resultados_actuales[abrev]]
    /\ ult_op' = "cargar_evaluacion_seleccionada"
    /\ mensajes' = << Mensaje("showinfo", "Éxito", <<"Evaluación cargada correctamente">>) >>
    /\ UNCHANGED <<paciente_actual, fecha_var, nombre_entry, edad_calculada, edad_desde_limpieza>>
    /\ UNCHANGED bdVars
    /\ UNCHANGED guardarFijas

\* lines 2031-2061
EliminarPacienteUI ==
    /\ ult_op' = "eliminar_paciente"
    /\ ant_bd' = BD(pacientes, evaluaciones)
    /\ IF paciente_actual = SinPaciente
       THEN /\ mensajes' = << Mensaje("showwarning", "Advertencia",
                                      <<"Primero selecciona un paciente">>) >>
            /\ UNCHANGED <<pacientes, evaluaciones, reloj, ult_bd, conexiones>>
            /\ UNCHANGED <<paciente_actual, fecha_var, nombre_entry, edad_calculada,
                           edad_desde_limpieza, entradas, etiquetas, filas_compuestos,
                           resultados_actuales>>
       ELSE /\ reloj < MaxGuardadas
            /\ \E falla_eval \in BOOLEAN, falla_pac \in BOOLEAN :
               LET r == eliminar_paciente(BD(pacientes, evaluaciones), paciente_actual.id,
                                          falla_eval, falla_pac)
                   fallos == (IF falla_eval THEN 1 ELSE 0) + (IF falla_pac THEN 1 ELSE 0)
               IN  /\ pacientes' = r.bd.pacientes
                   /\ evaluaciones' = r.bd.evaluaciones
                   /\ reloj' = reloj + 1
                   /\ ult_bd' = LlamadaBD("eliminar_paciente", paciente_actual.id, r.ret)
                   /\ \E recogidas \in 0..fallos :
                         conexiones' = ConexionesTras(conexiones, fallos, recogidas)
                   /\ IF r.ret = "True"
                      THEN /\ paciente_actual' = SinPaciente
                           /\ FormularioLimpiado
                      ELSE /\ mensajes' = << Mensaje("showerror", "Error",
                                                     <<"No se pudo eliminar el paciente.">>) >>
                           /\ UNCHANGED <<paciente_actual, fecha_var, nombre_entry,
                                          edad_calculada, edad_desde_limpieza, entradas,
                                          etiquetas, filas_compuestos, resultados_actuales>>
    /\ UNCHANGED guardarFijas

\* lines 2598-2659
GuardarEvaluacion ==
    /\ ult_op' = "guardar_evaluacion"
    /\ ant_bd' = BD(pacientes, evaluaciones)
    /\ LET datos_evaluacion ==
               recolectar_datos_evaluacion(edad_calculada, entradas, etiquetas,
                                           filas_compuestos, nivel_confianza, reloj + 1)
           guardia == guardia_guardar(paciente_actual, edad_calculada, datos_evaluacion)
       IN  IF guardia # <<>>
           THEN /\ mensajes' = << Mensaje("showerror", "Error", guardia) >>
                /\ ult_bd' = SinLlamadaBD
                /\ UNCHANGED <<pacientes, evaluaciones, reloj, conexiones>>
           ELSE /\ reloj < MaxGuardadas
                /\ \E falla \in BOOLEAN, evaluacion_id \in IdsEvaluaciones :
                      LET r == agregar_evaluacion(BD(pacientes, evaluaciones), evaluacion_id,
                                                  paciente_actual.id, datos_evaluacion,
                                                  reloj + 1, falla, FALSE)
                      IN  /\ pacientes' = r.bd.pacientes
                          /\ evaluaciones' = r.bd.evaluaciones
                          /\ reloj' = reloj + 1
                          /\ ult_bd' = [LlamadaBD("agregar_evaluacion", paciente_actual.id, r.ret)
                                          EXCEPT !.pasadas = r.pasadas]
                          /\ \E recogidas \in 0..r.fallos :
                                conexiones' = ConexionesTras(conexiones, r.fallos, recogidas)
                          /\ mensajes' =
                                IF r.ret # "None"
                                THEN << Mensaje("showinfo", "Éxito",
                                                <<"Evaluación guardada correctamente">>) >>
                                ELSE << Mensaje("showerror", "Error",
                                        <<"No se pudo guardar la evaluación en la base de datos.">>) >>
    /\ UNCHANGED <<paciente_actual, fecha_var, nombre_entry, edad_calculada, edad_desde_limpieza,
                   entradas, etiquetas, filas_compuestos, resultados_actuales>>
    /\ UNCHANGED guardarFijas

NextGuardar ==
    \/ SeleccionarPaciente
    \/ Teclear
    \/ CalcularEdad
    \/ CalcularPuntajes
    \/ CargarEvaluacion
    \/ LimpiarFormulario
    \/ EliminarPacienteUI
    \/ GuardarEvaluacion

SpecGuardar == InitGuardar /\ [][NextGuardar]_vars

(***************************************************************************)
(* Properties.  The helpers below state what a cell means through the way  *)
(* it is written (str), not through the parser of the converter.           *)
(***************************************************************************)
MesesDe(e) == e.anios * 12 + e.meses

EdadValida(e) == e.formada /\ 72 <= MesesDe(e) /\ MesesDe(e) <= 203

ValoresCelda == 0..(MaxCelda + 2)

\* the text of the range 'lo-hi' and of the single value 'v'
TextoRango == [lo \in ValoresCelda, hi \in ValoresCelda |-> Str(lo) \o <<"-">> \o Str(hi)]

TextoUnico == [v \in ValoresCelda |-> Str(v)]

\* the cell is the range 'lo-hi'
EsRango(c, lo, hi) == c = TextoRango[lo, hi]

\* the cell is the single value 'v'
EsUnico(c, v) == v \in ValoresCelda /\ c = TextoUnico[v]

\* the cell is a defined range or single value that contains p
CeldaContiene(c, p) ==
    \/ \E lo \in ValoresCelda, hi \in ValoresCelda : EsRango(c, lo, hi) /\ lo <= p /\ p <= hi
    \/ EsUnico(c, p)

\* p is the midpoint of the defined range (or the single value) of the cell
EsPuntoMedio(c, p) ==
    \/ \E lo \in ValoresCelda, hi \in ValoresCelda :
          EsRango(c, lo, hi) /\ lo <= hi /\ (lo + hi - 2 * p) \in {-1, 0, 1} /\ lo <= p /\ p <= hi
    \/ EsUnico(c, p)

\* the raw values defined for the subtest in the table
ValoresDefinidos(tabla, sub) ==
    { v \in ValoresCelda : \E i \in 1..Len(tabla) :
        LET c == FilaGet(tabla[i], sub)
        IN  \/ EsUnico(c, v)
            \/ \E w \in ValoresCelda : (EsRango(c, v, w) \/ EsRango(c, w, v)) }

\* the call made to convertir_puntaje resolved a band that the data holds
BandaDeMeses ==
    [m \in 72..203 |->
        CHOOSE g \in {grupos[i].grupo_id : i \in 1..Len(grupos)} :
            \E i \in 1..Len(grupos) : grupos[i].grupo_id = g /\ EdadEnGrupo(m, grupos[i])]

BandaDe(e) == BandaDeMeses[MesesDe(e)]

LlamadaEnTabla ==
    /\ ult_puntaje.hecha
    /\ EdadValida(ult_puntaje.edad)
    /\ BandaDe(ult_puntaje.edad) \in DOMAIN data.grupos_etarios

TablaLlamada == data.grupos_etarios[BandaDe(ult_puntaje.edad)].tabla

ErrorDeRangoEdad(r) == ~r.ok /\ r.exc = "ValueError" /\ r.msg[1] = "Error al convertir edad"

ErrorDeRangoBruto(r) == ~r.ok /\ r.exc = "ValueError" /\ r.msg = <<"Puntaje bruto fuera de rango">>

ErrorDeBusqueda(r) == ~r.ok /\ r.exc = "ValueError" /\ r.msg = <<"Subprueba no encontrada">>

\* C1: every age whose total months lies in [72, 203] is contained in exactly
\* one of the 22 bands, and the resolution returns that band's identifier.
Thm_C1_banda_unica ==
    (ult_edad.hecha /\ EdadValida(ult_edad.edad)) =>
        /\ Len(grupos) = 22
        /\ \E i \in 1..Len(grupos) :
              /\ EdadEnGrupo(MesesDe(ult_edad.edad), grupos[i])
              /\ \A j \in 1..Len(grupos) : j # i => ~EdadEnGrupo(MesesDe(ult_edad.edad), grupos[j])
              /\ ult_edad.res.ok
              /\ ult_edad.res.val = grupos[i].grupo_id

Wit_C1_banda_unica ==
    /\ ult_edad.hecha
    /\ MesesDe(ult_edad.edad) = 78
    /\ ult_edad.res.ok
    /\ ult_edad.res.val = "6_6_6_11"

\* C2: for every age below 72 or above 203 months convertir_puntaje fails
\* with the age range error and returns no scaled score, whatever the
\* subtest code and the raw score.
Thm_C2_edad_fuera_de_rango ==
    (/\ ult_puntaje.hecha
     /\ ult_puntaje.edad.formada
     /\ (MesesDe(ult_puntaje.edad) < 72 \/ MesesDe(ult_puntaje.edad) > 203))
    => ErrorDeRangoEdad(ult_puntaje.res)

Wit_C2_edad_fuera_de_rango ==
    /\ ult_puntaje.hecha
    /\ MesesDe(ult_puntaje.edad) = 204
    /\ ult_puntaje.subprueba = "XX"
    /\ ErrorDeRangoEdad(ult_puntaje.res)

\* p is one unit below the smallest or one unit above the largest raw value
\* defined for the subtest in the table
UnoFuera(tabla, sub, p) ==
    LET def == ValoresDefinidos(tabla, sub)
    IN  /\ def # {}
        /\ \/ (p + 1 \in def /\ \A v \in def : p + 1 <= v)
           \/ (p - 1 \in def /\ \A v \in def : v <= p - 1)

\* C3 (as stated): a raw score at the midpoint of the defined range of a row
\* converts to that row's scaled value; a raw score one unit below the
\* smallest or above the largest raw value defined for the subtest fails
\* with the raw-score range error.
Orig_C3_punto_medio ==
    (LlamadaEnTabla /\ ult_puntaje.subprueba \in data.subpruebas) =>
        LET tabla == TablaLlamada
            sub == ult_puntaje.subprueba
            p == ult_puntaje.puntaje_bruto
        IN  /\ \A i \in 1..Len(tabla) :
                  EsPuntoMedio(FilaGet(tabla[i], sub), p)
                  => (ult_puntaje.res.ok /\ ult_puntaje.res.val = tabla[i].puntaje_escala)
            /\ UnoFuera(tabla, sub, p) => ErrorDeRangoBruto(ult_puntaje.res)

\* C3 (amended): a raw score at the midpoint of the defined range of a row
\* converts to that row's scaled value provided no earlier row's cell for
\* the subtest contains that midpoint; a raw score one unit below the
\* smallest or above the largest defined raw value fails with the raw-score
\* range error.
Thm_C3_punto_medio ==
    (LlamadaEnTabla /\ ult_puntaje.subprueba \in data.subpruebas) =>
        LET tabla == TablaLlamada
            sub == ult_puntaje.subprueba
            p == ult_puntaje.puntaje_bruto
        IN  /\ \A i \in 1..Len(tabla) :
                  (/\ EsPuntoMedio(FilaGet(tabla[i], sub), p)
                   /\ \A j \in 1..(i - 1) : ~CeldaContiene(FilaGet(tabla[j], sub), p))
                  => (ult_puntaje.res.ok /\ ult_puntaje.res.val = tabla[i].puntaje_escala)
            /\ UnoFuera(tabla, sub, p) => ErrorDeRangoBruto(ult_puntaje.res)

\* the midpoint 2 of the second row's range '1-2' is converted to the second
\* row's scaled value, the first row ('1') not containing it
Wit_C3_punto_medio ==
    /\ LlamadaEnTabla
    /\ ult_puntaje.subprueba \in data.subpruebas
    /\ Len(TablaLlamada) = 2
    /\ EsRango(FilaGet(TablaLlamada[2], ult_puntaje.subprueba), 1, 2)
    /\ EsUnico(FilaGet(TablaLlamada[1], ult_puntaje.subprueba), 1)
    /\ ult_puntaje.puntaje_bruto = 2
    /\ ult_puntaje.res.ok
    /\ ult_puntaje.res.val = 2

\* C4: the rows are scanned in table order and the scaled value of the first
\* row whose cell for the subtest contains the raw score is returned; a cell
\* '-' or '' never matches; no later row overrides an earlier match.
\* (row i of a table of the model carries the scaled value i)
Thm_C4_primera_fila ==
    (LlamadaEnTabla /\ ult_puntaje.subprueba \in data.subpruebas) =>
        LET tabla == TablaLlamada
            sub == ult_puntaje.subprueba
            p == ult_puntaje.puntaje_bruto
            contienen == {i \in 1..Len(tabla) : CeldaContiene(FilaGet(tabla[i], sub), p)}
        IN  /\ \A i \in contienen :
                  (\A j \in contienen : i <= j)
                  => (ult_puntaje.res.ok /\ ult_puntaje.res.val = tabla[i].puntaje_escala)
            /\ ult_puntaje.res.ok =>
                  \E i \in 1..Len(tabla) :
                      /\ tabla[i].puntaje_escala = ult_puntaje.res.val
                      /\ FilaGet(tabla[i], sub) \notin {<<"-">>, <<>>, None}
                      /\ i \in contienen

\* two rows contain the raw score and the first one is returned
Wit_C4_primera_fila ==
    /\ LlamadaEnTabla
    /\ ult_puntaje.subprueba \in data.subpruebas
    /\ Len(TablaLlamada) = 2
    /\ CeldaContiene(FilaGet(TablaLlamada[1], ult_puntaje.subprueba), ult_puntaje.puntaje_bruto)
    /\ CeldaContiene(FilaGet(TablaLlamada[2], ult_puntaje.subprueba), ult_puntaje.puntaje_bruto)
    /\ ult_puntaje.res.ok
    /\ ult_puntaje.res.val = 1

\* the subtest has no cell in any row of the table
AusenteDeTabla(tabla, sub) == \A i \in 1..Len(tabla) : sub \notin DOMAIN tabla[i].celdas

\* what the lookup of column sub gives, stated from the cells
ResultadoDeColumna(tabla, sub, p, r) ==
    LET contienen == {i \in 1..Len(tabla) : CeldaContiene(FilaGet(tabla[i], sub), p)}
    IN  IF contienen = {} THEN ErrorDeRangoBruto(r)
        ELSE r.ok /\ \E i \in contienen : /\ \A j \in contienen : i <= j
                                          /\ r.val = tabla[i].puntaje_escala

\* C5 (as stated): whenever the subtest code is absent from the table of the
\* resolved band, convertir_puntaje fails with the lookup error, except that
\* 'INF' is replaced by 'IN' and converted as 'IN'.
Orig_C5_subprueba_ausente ==
    (LlamadaEnTabla /\ AusenteDeTabla(TablaLlamada, ult_puntaje.subprueba)) =>
        IF ult_puntaje.subprueba = "INF"
        THEN ResultadoDeColumna(TablaLlamada, "IN", ult_puntaje.puntaje_bruto, ult_puntaje.res)
        ELSE ErrorDeBusqueda(ult_puntaje.res)

\* C5 (amended): once the age has resolved to a band, convertir_puntaje
\* fails with the error 'Subprueba no encontrada' (told from the range errors
\* by its message) whenever the subtest code is absent from the subtest
\* catalogue of the loaded data and is not 'INF'; 'INF' absent from the
\* catalogue is replaced by 'IN' and converted as 'IN'; a code of the
\* catalogue that is absent from the band's table fails with the raw-score
\* range error.
Thm_C5_subprueba_ausente ==
    (ult_puntaje.hecha /\ EdadValida(ult_puntaje.edad)) =>
        LET sub == ult_puntaje.subprueba
        IN  /\ (sub \notin data.subpruebas /\ sub # "INF") => ErrorDeBusqueda(ult_puntaje.res)
            /\ (sub \notin data.subpruebas /\ sub # "INF") =>
                  ~ErrorDeRangoBruto(ult_puntaje.res) /\ ~ErrorDeRangoEdad(ult_puntaje.res)
            /\ (LlamadaEnTabla /\ sub \notin data.subpruebas /\ sub = "INF") =>
                  ResultadoDeColumna(TablaLlamada, "IN", ult_puntaje.puntaje_bruto, ult_puntaje.res)
            /\ (LlamadaEnTabla /\ sub \in data.subpruebas /\ AusenteDeTabla(TablaLlamada, sub)) =>
                  ErrorDeRangoBruto(ult_puntaje.res)

\* 'IN' has a column in the band's table but is not in the catalogue
Wit_C5_subprueba_ausente ==
    /\ LlamadaEnTabla
    /\ ult_puntaje.subprueba = "IN"
    /\ "IN" \notin data.subpruebas
    /\ ~AusenteDeTabla(TablaLlamada, "IN")
    /\ ErrorDeBusqueda(ult_puntaje.res)

\* 'INF' is not in the catalogue and is converted through the column 'IN'
Wit_C5_alias_inf ==
    /\ LlamadaEnTabla
    /\ ult_puntaje.subprueba = "INF"
    /\ "INF" \notin data.subpruebas
    /\ ult_puntaje.res.ok

(***************************************************************************)
(* Properties of convertir_compuesto.                                      *)
(***************************************************************************)
LlamadasCompuesto == {ant_compuesto, ult_compuesto}

\* the call was made for an index that has a table
EnTablaCompuesto(c) ==
    c.hecha /\ c.escala_abrev \in DOMAIN tablas_compuestos.tablas_conversion

DatosDe(c) == tablas_compuestos.tablas_conversion[c.escala_abrev].datos

\* the call asked for a sum above every tabulated sum (of at least two rows)
SobreElMaximo(c) ==
    /\ EnTablaCompuesto(c)
    /\ Len(DatosDe(c)) >= 2
    /\ \A i \in 1..Len(DatosDe(c)) : c.suma_escalar > DatosDe(c)[i].suma

BajoElMinimo(c) ==
    /\ EnTablaCompuesto(c)
    /\ Len(DatosDe(c)) >= 2
    /\ \A i \in 1..Len(DatosDe(c)) : c.suma_escalar < DatosDe(c)[i].suma

UltimaFila(c) == DatosDe(c)[Len(DatosDe(c))]

PenultimaFila(c) == DatosDe(c)[Len(DatosDe(c)) - 1]

\* C6: for a known index and a scaled sum equal to a tabulated row's sum the
\* result is exactly that row's composite, percentile, 90% and 95% intervals.
Thm_C6_fila_exacta ==
    \A c \in LlamadasCompuesto :
        EnTablaCompuesto(c) =>
            \A i \in 1..Len(DatosDe(c)) :
                DatosDe(c)[i].suma = c.suma_escalar =>
                    /\ c.res.ok
                    /\ c.res.val.compuesto = DatosDe(c)[i].valor
                    /\ c.res.val.percentil = DatosDe(c)[i].percentil
                    /\ c.res.val.conf_90 = DatosDe(c)[i].conf_90
                    /\ c.res.val.conf_95 = DatosDe(c)[i].conf_95

\* the sum asked is that of the second of three rows
Wit_C6_fila_exacta ==
    /\ EnTablaCompuesto(ult_compuesto)
    /\ Len(DatosDe(ult_compuesto)) = 3
    /\ DatosDe(ult_compuesto)[2].suma = ult_compuesto.suma_escalar
    /\ DatosDe(ult_compuesto)[2].valor = 155
    /\ DatosDe(ult_compuesto)[1].valor = 45
    /\ ult_compuesto.res.ok
    /\ ult_compuesto.res.val.compuesto = 155

\* C7: above the table's maximum sum the returned composite is at least the
\* last tabulated composite and at most 160; below the table's minimum sum
\* the returned composite is at least 40.
Thm_C7_cotas_extrapolacion ==
    \A c \in LlamadasCompuesto :
        /\ (SobreElMaximo(c) /\ c.res.ok) =>
              (c.res.val.compuesto >= UltimaFila(c).valor /\ c.res.val.compuesto <= 160)
        /\ (BajoElMinimo(c) /\ c.res.ok) => c.res.val.compuesto >= 40

\* the undamped, uncapped extrapolation would give 155 + 115 * 2
Wit_C7_cotas_extrapolacion ==
    /\ SobreElMaximo(ult_compuesto)
    /\ UltimaFila(ult_compuesto).valor = 155
    /\ PenultimaFila(ult_compuesto).valor = 40
    /\ UltimaFila(ult_compuesto).suma = PenultimaFila(ult_compuesto).suma + 1
    /\ ult_compuesto.suma_escalar = UltimaFila(ult_compuesto).suma + 2
    /\ ult_compuesto.res.ok
    /\ ult_compuesto.res.val.compuesto = 160

\* the rows are sorted ascending by sum, with non-decreasing composite values
TablaOrdenada(datos) ==
    \A i \in 1..(Len(datos) - 1) :
        datos[i].suma < datos[i + 1].suma /\ datos[i].valor <= datos[i + 1].valor

DentroDeTabla(c) ==
    /\ EnTablaCompuesto(c)
    /\ Len(DatosDe(c)) >= 1
    /\ \E i \in 1..Len(DatosDe(c)) : DatosDe(c)[i].suma <= c.suma_escalar
    /\ \E i \in 1..Len(DatosDe(c)) : DatosDe(c)[i].suma >= c.suma_escalar

Tabulada(c) == \E i \in 1..Len(DatosDe(c)) : DatosDe(c)[i].suma = c.suma_escalar

\* C8: on a table sorted ascending by sum with non-decreasing composites, for
\* two sums s1 <= s2 between the table's minimum and maximum sum the
\* composite returned for s1 is at most the composite returned for s2.
Thm_C8_monotona ==
    (/\ DentroDeTabla(ant_compuesto)
     /\ DentroDeTabla(ult_compuesto)
     /\ ant_compuesto.escala_abrev = ult_compuesto.escala_abrev
     /\ TablaOrdenada(DatosDe(ant_compuesto))
     /\ ant_compuesto.suma_escalar <= ult_compuesto.suma_escalar)
    => /\ ant_compuesto.res.ok
       /\ ult_compuesto.res.ok
       /\ ant_compuesto.res.val.compuesto <= ult_compuesto.res.val.compuesto

\* two interpolated sums of the same pair of rows, the later one strictly higher
Wit_C8_monotona ==
    /\ DentroDeTabla(ant_compuesto)
    /\ DentroDeTabla(ult_compuesto)
    /\ ant_compuesto.escala_abrev = ult_compuesto.escala_abrev
    /\ TablaOrdenada(DatosDe(ant_compuesto))
    /\ ~Tabulada(ant_compuesto)
    /\ ~Tabulada(ult_compuesto)
    /\ ant_compuesto.suma_escalar < ult_compuesto.suma_escalar
    /\ ant_compuesto.res.val.compuesto < ult_compuesto.res.val.compuesto

\* r is num/den rounded to the nearest integer, a tie going to the even one
EsRedondeo(r, num, den) ==
    LET dif == r * den - num
        adif == IF dif < 0 THEN 0 - dif ELSE dif
        aden == IF den < 0 THEN 0 - den ELSE den
    IN  /\ 2 * adif <= aden
        /\ (2 * adif = aden) => r % 2 = 0

\* the integers next to num/den
CercanosA(num, den) ==
    LET base == IF den < 0 THEN (0 - num) \div (0 - den) ELSE num \div den
    IN  (base - 1)..(base + 1)

\* C9: above the table's maximum the composite is
\* max(v_last, min(160, round(v_last + 0.7 * slope * (s - s_last)))) with
\* slope = (v_last - v_prev) / (s_last - s_prev) from the last two rows.
Thm_C9_extrapolacion_alta ==
    \A c \in LlamadasCompuesto :
        SobreElMaximo(c) =>
            LET v_last == UltimaFila(c).valor
                v_prev == PenultimaFila(c).valor
                s_last == UltimaFila(c).suma
                s_prev == PenultimaFila(c).suma
                den == 10 * (s_last - s_prev)
                num == v_last * den + 7 * (v_last - v_prev) * (c.suma_escalar - s_last)
            IN  /\ c.res.ok
                /\ \E r \in CercanosA(num, den) :
                      /\ EsRedondeo(r, num, den)
                      /\ c.res.val.compuesto = Max2(v_last, Min2(160, r))

\* 45 + 0.7 * 5 * 2 = 52, where the undamped slope would give 55
Wit_C9_extrapolacion_alta ==
    /\ SobreElMaximo(ult_compuesto)
    /\ UltimaFila(ult_compuesto).valor = 45
    /\ PenultimaFila(ult_compuesto).valor = 40
    /\ UltimaFila(ult_compuesto).suma = PenultimaFila(ult_compuesto).suma + 1
    /\ ult_compuesto.suma_escalar = UltimaFila(ult_compuesto).suma + 2
    /\ ult_compuesto.res.ok
    /\ ult_compuesto.res.val.compuesto = 52

\* C10: above the table's maximum the percentile returned is the last row's
\* percentile unchanged, and the 90% and 95% intervals are the last row's.
Orig_C10_percentil_ultima_fila ==
    \A c \in LlamadasCompuesto :
        (SobreElMaximo(c) /\ c.res.ok) =>
            /\ c.res.val.percentil = UltimaFila(c).percentil
            /\ c.res.val.conf_90 = UltimaFila(c).conf_90
            /\ c.res.val.conf_95 = UltimaFila(c).conf_95

\* the rows are listed in ascending order of sum
SumasAscendentes(datos) == \A i \in 1..(Len(datos) - 1) : datos[i].suma < datos[i + 1].suma

\* the row of the smallest sum
FilaMasBaja(datos) == CHOOSE f \in {datos[i] : i \in 1..Len(datos)} :
                         \A i \in 1..Len(datos) : f.suma <= datos[i].suma

\* C11: below the table's minimum the composite is
\* max(40, min(160, round(v_first + slope * (s - s_first)))) with
\* slope = (v_second - v_first) / (s_second - s_first) from the first two
\* rows, and the percentile and both intervals are those of the first row,
\* which is the lowest row of a table listed in ascending order of sum.
Thm_C11_extrapolacion_baja ==
    \A c \in LlamadasCompuesto :
        BajoElMinimo(c) =>
            LET fila_1 == DatosDe(c)[1]
                fila_2 == DatosDe(c)[2]
                den == fila_2.suma - fila_1.suma
                num == fila_1.valor * den + (fila_2.valor - fila_1.valor) * (c.suma_escalar - fila_1.suma)
            IN  /\ c.res.ok
                /\ \E r \in CercanosA(num, den) :
                      /\ EsRedondeo(r, num, den)
                      /\ c.res.val.compuesto = Max2(40, Min2(160, r))
                /\ 40 <= c.res.val.compuesto /\ c.res.val.compuesto <= 160
                /\ c.res.val.percentil = fila_1.percentil
                /\ c.res.val.conf_90 = fila_1.conf_90
                /\ c.res.val.conf_95 = fila_1.conf_95
                /\ SumasAscendentes(DatosDe(c)) =>
                      /\ fila_1 = FilaMasBaja(DatosDe(c))
                      /\ c.res.val.percentil = FilaMasBaja(DatosDe(c)).percentil
                      /\ c.res.val.conf_90 = FilaMasBaja(DatosDe(c)).conf_90
                      /\ c.res.val.conf_95 = FilaMasBaja(DatosDe(c)).conf_95

\* 45 - 110 * 1 = -65 is raised to 40, with the percentile of the first row
Wit_C11_extrapolacion_baja ==
    /\ BajoElMinimo(ult_compuesto)
    /\ SumasAscendentes(DatosDe(ult_compuesto))
    /\ DatosDe(ult_compuesto)[1].valor = 45
    /\ DatosDe(ult_compuesto)[2].valor = 155
    /\ DatosDe(ult_compuesto)[2].suma = DatosDe(ult_compuesto)[1].suma + 1
    /\ ult_compuesto.suma_escalar = DatosDe(ult_compuesto)[1].suma - 1
    /\ ult_compuesto.res.ok
    /\ ult_compuesto.res.val.compuesto = 40
    /\ ult_compuesto.res.val.percentil = <<"0", ".", "1">>

\* C12: for a sum strictly between the sums of two adjacent rows i and i+1
\* the composite is round(v_i + (s - s_i) / (s_(i+1) - s_i) * (v_(i+1) - v_i))
\* and the percentile and both intervals are those of the lower row i.
Thm_C12_interpolacion ==
    \A c \in LlamadasCompuesto :
        EnTablaCompuesto(c) =>
            \A i \in 1..(Len(DatosDe(c)) - 1) :
                LET fila_i == DatosDe(c)[i]
                    fila_s == DatosDe(c)[i + 1]
                    den == fila_s.suma - fila_i.suma
                    num == fila_i.valor * den + (c.suma_escalar - fila_i.suma) * (fila_s.valor - fila_i.valor)
                IN  (fila_i.suma < c.suma_escalar /\ c.suma_escalar < fila_s.suma) =>
                        /\ c.res.ok
                        /\ \E r \in CercanosA(num, den) :
                              EsRedondeo(r, num, den) /\ c.res.val.compuesto = r
                        /\ c.res.val.percentil = fila_i.percentil
                        /\ c.res.val.conf_90 = fila_i.conf_90
                        /\ c.res.val.conf_95 = fila_i.conf_95

\* 40 + (1 / 3) * 115 = 78.33 gives 78, with the percentile of the lower row
Wit_C12_interpolacion ==
    /\ EnTablaCompuesto(ult_compuesto)
    /\ Len(DatosDe(ult_compuesto)) >= 2
    /\ DatosDe(ult_compuesto)[1].valor = 40
    /\ DatosDe(ult_compuesto)[2].valor = 155
    /\ DatosDe(ult_compuesto)[2].suma = DatosDe(ult_compuesto)[1].suma + 3
    /\ ult_compuesto.suma_escalar = DatosDe(ult_compuesto)[1].suma + 1
    /\ ult_compuesto.res.ok
    /\ ult_compuesto.res.val.compuesto = 78
    /\ ult_compuesto.res.val.percentil = <<"<", "0", ".", "1">>
    /\ ult_compuesto.res.val.percentil # DatosDe(ult_compuesto)[2].percentil

\* the index has no table, or its table has no rows
SinFilas(c) ==
    \/ c.escala_abrev \notin DOMAIN tablas_compuestos.tablas_conversion
    \/ Len(tablas_compuestos.tablas_conversion[c.escala_abrev].datos) = 0

\* C13: when no tables are loaded, the index has no table, or the index's
\* table has no rows, convertir_compuesto raises (a ValueError, the exception
\* this code uses for a failed lookup) and returns no result.
Thm_C13_sin_tabla ==
    \A c \in LlamadasCompuesto :
        (c.hecha /\ SinFilas(c)) =>
            /\ ~c.res.ok
            /\ c.res.exc = "ValueError"
            /\ c.res.val = SinResCompuesto

\* a table without rows asked for 'ICV', then the unknown index 'IVE'
Wit_C13_sin_tabla ==
    /\ ant_compuesto.hecha
    /\ ult_compuesto.hecha
    /\ "ICV" \in DOMAIN tablas_compuestos.tablas_conversion
    /\ Len(DatosDe(ant_compuesto)) = 0
    /\ ult_compuesto.escala_abrev = "IVE"
    /\ ~ant_compuesto.res.ok
    /\ ant_compuesto.res.msg = <<"min() arg is an empty sequence">>
    /\ ~ult_compuesto.res.ok
    /\ ult_compuesto.res.msg = <<"Escala no encontrada en las tablas">>

(***************************************************************************)
(* Properties of convertir_cit.                                            *)
(***************************************************************************)
DatosCIT == tabla_cit.datos

\* C14: convertir_cit applies no extrapolation: a sum below every tabulated
\* sum returns the first row's CIT, percentile and intervals, a sum above
\* every tabulated sum returns the last row's, a tabulated sum returns its
\* row, and a sum strictly between two adjacent rows returns the rounded
\* linear interpolation of their CIT values with the lower row's percentile
\* and intervals.
Thm_C14_cit_sin_extrapolar ==
    (ult_cit.hecha /\ Len(DatosCIT) >= 1) =>
        LET s == ult_cit.suma_escalar
            n == Len(DatosCIT)
        IN  /\ ult_cit.res.ok
            /\ (\A i \in 1..n : s < DatosCIT[i].suma)
                  => ult_cit.res.val = ResCIT(DatosCIT[1].cit, DatosCIT[1])
            /\ (\A i \in 1..n : s > DatosCIT[i].suma)
                  => ult_cit.res.val = ResCIT(DatosCIT[n].cit, DatosCIT[n])
            /\ \A i \in 1..n :
                  s = DatosCIT[i].suma => ult_cit.res.val = ResCIT(DatosCIT[i].cit, DatosCIT[i])
            /\ \A i \in 1..(n - 1) :
                  LET fila_i == DatosCIT[i]
                      fila_s == DatosCIT[i + 1]
                      den == fila_s.suma - fila_i.suma
                      num == fila_i.cit * den + (s - fila_i.suma) * (fila_s.cit - fila_i.cit)
                  IN  (fila_i.suma < s /\ s < fila_s.suma) =>
                          /\ \E r \in CercanosA(num, den) :
                                EsRedondeo(r, num, den) /\ ult_cit.res.val.compuesto = r
                          /\ ult_cit.res.val.percentil = fila_i.percentil
                          /\ ult_cit.res.val.conf_90 = fila_i.conf_90
                          /\ ult_cit.res.val.conf_95 = fila_i.conf_95

\* below the rows (45, 155) the CIT returned is 45, where the slope of the
\* two rows would lead to the floor 40
Wit_C14_cit_sin_extrapolar ==
    /\ ult_cit.hecha
    /\ Len(DatosCIT) >= 2
    /\ DatosCIT[1].cit = 45
    /\ DatosCIT[2].cit = 155
    /\ DatosCIT[2].suma = DatosCIT[1].suma + 1
    /\ ult_cit.suma_escalar = DatosCIT[1].suma - 1
    /\ \A i \in 1..Len(DatosCIT) : ult_cit.suma_escalar < DatosCIT[i].suma
    /\ ult_cit.res.ok
    /\ ult_cit.res.val.compuesto = 45
    /\ ult_cit.res.val.percentil = <<"0", ".", "1">>

(***************************************************************************)
(* Properties of the score form.                                           *)
(***************************************************************************)
\* the text of the scaled scores a label can show
TextoEscalar == [v \in 0..19 |-> Str(v)]

\* the label of the subtest shows a scaled score
ConPuntajeEscalar(sub) == \E v \in 0..19 : etiquetas[sub] = TextoEscalar[v]

ValorEtiqueta(sub) == CHOOSE v \in 0..19 : etiquetas[sub] = TextoEscalar[v]

\* the seven subtests of the CIT
SieteDelCIT == {"CC", "AN", "MR", "RD", "CLA", "VOC", "BAL"}

RECURSIVE SumaEtiquetas(_)
SumaEtiquetas(S) ==
    IF S = {} THEN 0
    ELSE LET sub == CHOOSE x \in S : TRUE
         IN  ValorEtiqueta(sub) + SumaEtiquetas(S \ {sub})

\* calcular_puntajes_compuestos ran last and went through its scales
CompuestosCalculados ==
    /\ ult_op = "calcular_puntajes_compuestos"
    /\ mensajes[1].titulo # "Advertencia"

\* C15: after calcular_puntajes_compuestos has gone through its scales,
\* convertir_cit was called only if all of CC, AN, MR, RD, CLA, VOC and BAL
\* show a scaled score, and then with the sum of exactly those seven, which
\* is the sum the CIT row shows; when one of the seven is missing the CIT row
\* is empty and resultados_actuales holds no CIT.
Thm_C15_cit_siete_subpruebas ==
    CompuestosCalculados =>
        LET todas == \A sub \in SieteDelCIT : ConPuntajeEscalar(sub)
        IN  /\ ult_cit.hecha =>
                  /\ todas
                  /\ Cardinality(SieteDelCIT) = 7
                  /\ ult_cit.suma_escalar = SumaEtiquetas(SieteDelCIT)
            /\ "CIT" \in DOMAIN resultados_actuales =>
                  /\ ult_cit.hecha
                  /\ ult_cit.res.ok
                  /\ resultados_actuales["CIT"] = ult_cit.res.val.compuesto
                  /\ filas_compuestos["CIT"].suma = Str(SumaEtiquetas(SieteDelCIT))
                  /\ filas_compuestos["CIT"].compuesto = Str(ult_cit.res.val.compuesto)
            /\ filas_compuestos["CIT"] # FilaLimpia => "CIT" \in DOMAIN resultados_actuales
            /\ ~todas =>
                  /\ filas_compuestos["CIT"] = FilaLimpia
                  /\ "CIT" \notin DOMAIN resultados_actuales
                  /\ ~ult_cit.hecha

\* the entry of AN was cleared and the scores recalculated: six of the seven
\* subtests show a scaled score, the index ICV is shown and the CIT is not
Wit_C15_cit_siete_subpruebas ==
    /\ CompuestosCalculados
    /\ ediciones = 1
    /\ etiquetas["AN"] = <<>>
    /\ \A sub \in SieteDelCIT \ {"AN"} : ConPuntajeEscalar(sub)
    /\ "ICV" \in DOMAIN resultados_actuales
    /\ "CIT" \notin DOMAIN resultados_actuales
    /\ filas_compuestos["CIT"] = FilaLimpia

\* the seven subtests show a scaled score and the CIT of their sum is shown
Wit_C15_cit_completo ==
    /\ CompuestosCalculados
    /\ \A sub \in SieteDelCIT : ConPuntajeEscalar(sub)
    /\ etiquetas["VOC"] = Str(2)
    /\ ult_cit.hecha
    /\ ult_cit.suma_escalar = 8
    /\ filas_compuestos["CIT"].suma = Str(8)
    /\ "CIT" \in DOMAIN resultados_actuales

\* C16: after eliminar_paciente(id) has returned True on a patient that was
\* in the store, no evaluation with that paciente_id is left, the patient's
\* row is gone, and every evaluation of every other patient is there as it
\* was before the call.
Thm_C16_eliminar_paciente ==
    (/\ ult_bd.op = "eliminar_paciente"
     /\ ult_bd.ret = "True"
     /\ ult_bd.arg \in DOMAIN ant_bd.pacientes)
    => /\ EvaluacionesDe(evaluaciones, ult_bd.arg) = {}
       /\ ult_bd.arg \notin DOMAIN pacientes
       /\ \A k \in DOMAIN ant_bd.evaluaciones :
             ant_bd.evaluaciones[k].paciente_id # ult_bd.arg
             => k \in DOMAIN evaluaciones /\ evaluaciones[k] = ant_bd.evaluaciones[k]

\* a patient with an evaluation was deleted while another patient had one
Wit_C16_eliminar_paciente ==
    /\ ult_bd.op = "eliminar_paciente"
    /\ ult_bd.ret = "True"
    /\ ult_bd.arg \in DOMAIN ant_bd.pacientes
    /\ EvaluacionesDe(ant_bd.evaluaciones, ult_bd.arg) # {}
    /\ DOMAIN evaluaciones # {}

\* C17: a call to the manager leaves every stored evaluation under its id
\* with the same paciente_id, fecha_evaluacion and datos_evaluacion, or
\* removes it, and it removes it only when the call is eliminar_paciente on
\* the patient that owns the evaluation.
Thm_C17_evaluacion_inmutable ==
    \A k \in DOMAIN ant_bd.evaluaciones :
        \/ k \in DOMAIN evaluaciones /\ evaluaciones[k] = ant_bd.evaluaciones[k]
        \/ /\ k \notin DOMAIN evaluaciones
           /\ ult_bd.op = "eliminar_paciente"
           /\ ult_bd.arg = ant_bd.evaluaciones[k].paciente_id

\* an evaluation stored by agregar_evaluacion is still there after a later
\* agregar_evaluacion, made for another patient, that stored nothing
Wit_C17_evaluacion_inmutable ==
    /\ reloj = 2
    /\ ult_bd.op = "agregar_evaluacion"
    /\ ult_bd.ret = "None"
    /\ \E k \in DOMAIN evaluaciones :
          /\ evaluaciones[k].fecha_evaluacion = 1
          /\ evaluaciones[k].paciente_id # ult_bd.arg

\* calcular_puntajes went past its three guards and through its loop
PuntajesRecorridos ==
    /\ ult_op = "calcular_puntajes"
    /\ edad_calculada.calculada
    /\ nombre_entry # <<>>
    /\ conversor # "None"

\* the conversion of the raw score entered for a subtest fails
FallaConversion(sub) ==
    /\ entradas[sub] # <<>>
    /\ \/ ~IntValido(entradas[sub])
       \/ ~convertir_puntaje(data, edad_calculada.edad.texto, sub, IntDe(entradas[sub])).ok

\* the message box shown lists an error line that names the subtest
NombradaEnMensaje(sub) ==
    \E m \in 1..Len(mensajes) :
        \E i \in 1..Len(mensajes[m].errores) : mensajes[m].errores[i].subprueba = sub

\* C18: after calcular_puntajes every subtest whose conversion failed is
\* named in the message shown, also when no subtest was converted, and every
\* other subtest with a raw score shows its scaled score.
Orig_C18_errores_visibles ==
    PuntajesRecorridos =>
        \A sub \in ConjSubpruebasUI :
            entradas[sub] # <<>> =>
                IF FallaConversion(sub)
                THEN NombradaEnMensaje(sub)
                ELSE etiquetas[sub] =
                        Str(convertir_puntaje(data, edad_calculada.edad.texto, sub,
                                              IntDe(entradas[sub])).val)

\* the conversion that calcular_puntajes_compuestos attempts for an index,
\* from the scaled scores on the form, fails
FallaCompuesto(abrev) ==
    LET puntajes_escalares == PuntajesEscalares(etiquetas)
        disp == PuntajesDisponibles(IF abrev = "CIT" THEN subpruebas_principales
                                    ELSE SubtestsDe(abrev), 1, puntajes_escalares)
    IN  IF abrev = "CIT"
        THEN Len(disp) = 7 /\ ~convertir_cit(tabla_cit, sum(disp)).ok
        ELSE Len(disp) >= 1 /\ ~convertir_compuesto(tablas_compuestos, abrev, sum(disp)).ok

\* C19: after calcular_puntajes_compuestos an index whose conversion failed
\* is named in the message shown, and no message reports the run as
\* successful.
Orig_C19_fallo_compuesto_visible ==
    CompuestosCalculados =>
        \A abrev \in Abreviaturas :
            FallaCompuesto(abrev) =>
                /\ NombradaEnMensaje(abrev)
                /\ \A m \in 1..Len(mensajes) : mensajes[m].titulo # "Éxito"

\* the table file of the converter is missing or malformed
FallaCargaDeTablas == ~cargar_datos(archivos.datos).ok

\* C20: when the converter's table file is missing or malformed, the start
\* of the program is never terminated, and once the import is over a
\* converter is available and runs on the built-in default table.
Orig_C20_respaldo_por_defecto ==
    (FallaCargaDeTablas /\ archivos.converter) =>
        /\ fase # "terminado"
        /\ fase # "inicio" => (conversor = "WISCConverter" /\ data = obtener_tablas_por_defecto)

\* C26: in every state of the store every evaluation's paciente_id is the
\* id of a stored patient; an agregar_evaluacion for an id that is not a
\* stored patient stores nothing.
Thm_C26_integridad_referencial ==
    /\ BDConsistente(BD(pacientes, evaluaciones))
    /\ (ult_bd.op = "agregar_evaluacion" /\ ult_bd.arg \notin DOMAIN ant_bd.pacientes)
       => (ult_bd.ret = "None" /\ evaluaciones = ant_bd.evaluaciones)

\* an evaluation was refused for a patient that is not stored, while other
\* evaluations are stored
Wit_C26_integridad_referencial ==
    /\ ult_bd.op = "agregar_evaluacion"
    /\ ult_bd.arg \notin DOMAIN ant_bd.pacientes
    /\ DOMAIN evaluaciones # {}

\* C29: when eliminar_paciente returns False the patient's row and all its
\* evaluations are as before the call; when it returns True the row and the
\* evaluations are gone.
Orig_C29_eliminar_todo_o_nada ==
    ult_bd.op = "eliminar_paciente" =>
        IF ult_bd.ret = "False"
        THEN /\ ult_bd.arg \in DOMAIN ant_bd.pacientes => ult_bd.arg \in DOMAIN pacientes
             /\ EvaluacionesDe(evaluaciones, ult_bd.arg)
                   = EvaluacionesDe(ant_bd.evaluaciones, ult_bd.arg)
        ELSE /\ ult_bd.arg \notin DOMAIN pacientes
             /\ EvaluacionesDe(evaluaciones, ult_bd.arg) = {}

\* the subtests designated for an index, as a set
DesignadasDe(abrev) == {SubtestsDe(abrev)[i] : i \in 1..Len(SubtestsDe(abrev))}

\* C30: after calcular_puntajes_compuestos has gone through its scales, an
\* index of ICV, IVE, IRF, IMT, IVP has a row or a value in
\* resultados_actuales only if both of its subtests show a scaled score, the
\* row's sum being the sum of both; when one of them shows none the row is
\* empty and resultados_actuales holds no value for the index.
Orig_C30_indice_con_ambas_subpruebas ==
    CompuestosCalculados =>
        \A abrev \in IndicesJSON :
            IF \A sub \in DesignadasDe(abrev) : ConPuntajeEscalar(sub)
            THEN filas_compuestos[abrev] # FilaLimpia
                    => filas_compuestos[abrev].suma = Str(SumaEtiquetas(DesignadasDe(abrev)))
            ELSE /\ filas_compuestos[abrev] = FilaLimpia
                 /\ abrev \notin DOMAIN resultados_actuales

\* the default tables are the ones loaded
ConTablasPorDefecto ==
    TABLAS_WISCV.importado /\ TABLAS_WISCV.tablas = obtener_tablas_por_defecto

\* the smallest and the largest raw score of a range 'low-high' or 'value'
MinDeRango(c) == IntDe(Split(c, "-")[1])

MaxDeRango(c) == LET partes == Split(c, "-") IN IntDe(partes[Len(partes)])

\* the scaled keys of a subtest's table whose range contains the raw score
ClavesCon(tabla_subprueba, p) ==
    {e \in DOMAIN tabla_subprueba :
        MinDeRango(tabla_subprueba[e]) <= p /\ p <= MaxDeRango(tabla_subprueba[e])}

\* C24: in the default tables, for each band and subtest, every raw score
\* between the smallest and the largest value defined for the subtest lies
\* in the range of exactly one scaled score.
Orig_C24_rangos_contiguos ==
    ConTablasPorDefecto =>
        \A g \in DOMAIN TABLAS_WISCV.tablas : \A sub \in DOMAIN TABLAS_WISCV.tablas[g] :
            LET t == TABLAS_WISCV.tablas[g][sub]
                minimo == CHOOSE m \in {MinDeRango(t[e]) : e \in DOMAIN t} :
                              \A e \in DOMAIN t : m <= MinDeRango(t[e])
                maximo == CHOOSE m \in {MaxDeRango(t[e]) : e \in DOMAIN t} :
                              \A e \in DOMAIN t : m >= MaxDeRango(t[e])
            IN  \A p \in minimo..maximo : Cardinality(ClavesCon(t, p)) = 1

\* the conversion of debug_converter.py was made against the default tables
ConversionDeEjemplo ==
    /\ ConTablasPorDefecto
    /\ ult_puntaje.hecha
    /\ ult_puntaje.edad = Edad(8, 6)
    /\ ult_puntaje.subprueba = "CC"
    /\ ult_puntaje.puntaje_bruto = 25

\* C25: age '8:6', subtest 'CC', raw score 25 against the default tables
\* gives scaled score 7.
Orig_C25_ejemplo_cc_25 == ConversionDeEjemplo => ult_puntaje.res = Retorna(7)

\* C25 (amended): age '8:6', subtest 'CC', raw score 25 against the default
\* tables gives scaled score 12, the key of the range '25-27'; scaled score
\* 7 is what the raw scores 12 to 14 give.
Thm_C25_ejemplo_cc_25 ==
    /\ ConversionDeEjemplo => ult_puntaje.res = Retorna(12)
    /\ (/\ ConTablasPorDefecto /\ ult_puntaje.hecha /\ ult_puntaje.subprueba = "CC"
        /\ ult_puntaje.edad = Edad(8, 6) /\ ult_puntaje.res = Retorna(7))
       => ult_puntaje.puntaje_bruto \in 12..14

Wit_C25_ejemplo_cc_25 == ConversionDeEjemplo /\ ult_puntaje.res.ok

\* the rows of evaluaciones written by the last call
FilasEscritas == (DOMAIN evaluaciones) \ (DOMAIN ant_bd.evaluaciones)

\* C22: a call of agregar_evaluacion makes at most two serialization
\* passes and writes at most one row; an id it returns is the id of the one
\* row written, owned by the patient given; when it returns None no row was
\* written; the rows stored before are as they were.
Thm_C22_una_fila_por_llamada ==
    ult_bd.op = "agregar_evaluacion" =>
        /\ ult_bd.pasadas \in {1, 2}
        /\ Cardinality(FilasEscritas) <= 1
        /\ \A k \in DOMAIN ant_bd.evaluaciones :
              k \in DOMAIN evaluaciones /\ evaluaciones[k] = ant_bd.evaluaciones[k]
        /\ IF ult_bd.ret = "None" THEN FilasEscritas = {}
           ELSE /\ FilasEscritas = {ult_bd.ret}
                /\ evaluaciones[ult_bd.ret].paciente_id = ult_bd.arg

\* a payload went through the second pass, and nothing was written
Wit_C22_una_fila_por_llamada ==
    /\ ult_bd.op = "agregar_evaluacion"
    /\ ult_bd.pasadas = 2
    /\ ult_bd.ret = "None"

\* a payload with dates was written in the first pass, the dates as text
Wit_C22_fechas_escritas ==
    /\ ult_bd.op = "agregar_evaluacion"
    /\ ult_bd.pasadas = 1
    /\ ult_bd.ret # "None"
    /\ "fecha" \in DOMAIN evaluaciones[ult_bd.ret].datos_evaluacion[2].hijos
    /\ evaluaciones[ult_bd.ret].datos_evaluacion[2].hijos["fecha"] = Atomo("str", "2024-05-01")

\* C23: when a call of the store has returned, with a result or with its
\* failure value, every connection it opened is closed: no connection is
\* open between calls.
Orig_C23_conexion_cerrada == conexiones = 0

\* C21: the predictor is trained only while its last run of entrenar_modelos
\* saw at least ten pairs; a run over fewer than ten pairs returns False
\* and leaves the predictor untrained, also when an earlier run had trained
\* it; from then until the next run obtener_estadisticas_modelo answers
\* 'No entrenado', and predecir_evolucion, called while the store still
\* yields fewer than ten pairs, returns None.
Thm_C21_entrenado_con_diez_pares ==
    /\ predictor.entrenado =>
          (corrida.resultado \in {"lograda", "interrumpida"} /\ corrida.pares >= 10)
    /\ (ult_ia.op = "entrenar_modelos" /\ ult_ia.pares < 10) =>
          (ult_ia.ret = "False" /\ ~predictor.entrenado)
    /\ (ult_ia.op = "obtener_estadisticas_modelo"
          /\ corrida.resultado = "insuficiente") => ult_ia.ret = "No entrenado"
    /\ (ult_ia.op = "predecir_evolucion" /\ ult_ia.pares < 10
          /\ ult_ia.antes.corrida.resultado = "insuficiente") =>
          (ult_ia.ret = "None" /\ ~predictor.entrenado)

\* a predictor trained by an earlier run was retrained over fewer than ten
\* pairs
Wit_C21_entrenado_con_diez_pares ==
    /\ ult_ia.op = "entrenar_modelos"
    /\ ult_ia.pares < 10
    /\ ult_ia.antes.predictor.entrenado
    /\ ult_ia.ret = "False"

\* a stored evaluation agrees with itself: each scaled score is what the
\* converter gives for the stored raw score at the stored age, and the
\* stored age is the age of the patient that owns the row
EvaluacionCoherente(k) ==
    LET datos == evaluaciones[k].datos_evaluacion[2]
        edad == datos.hijos["edad_paciente"].hijos
        subpruebas == datos.hijos["subpruebas"].hijos
        paciente_id == evaluaciones[k].paciente_id
    IN  /\ "edad_formato" \in DOMAIN edad
        /\ \A sub \in DOMAIN subpruebas :
              LET bruto == subpruebas[sub].hijos["bruto"].v
              IN  /\ IntValido(bruto)
                  /\ convertir_puntaje(data, edad["edad_formato"].v, sub, IntDe(bruto))
                        = Retorna(subpruebas[sub].hijos["escalar"].v)
        /\ paciente_id \in DOMAIN pacientes
        /\ calcular_edad_actual(pacientes[paciente_id].fecha_nacimiento, HOY).edad.edad.texto
              = edad["edad_formato"].v

\* C27: every evaluation in the store, whatever selections, edits and
\* calculations came before guardar_evaluacion wrote it, holds scaled scores
\* that are the conversions of its raw scores at its age, and the age of
\* the patient it is stored under.
Orig_C27_evaluacion_coherente == \A k \in DOMAIN evaluaciones : EvaluacionCoherente(k)

\* lines 2682-2706: the form holds no subtest result and no composite result
FormularioSinResultados ==
    SubpruebasConResultado(etiquetas) = {} /\ EscalasConResultado(filas_compuestos) = {}

\* C28: when guardar_evaluacion has run with no patient selected, or with no
\* age calculated since the form was last cleared, or with neither a
\* subtest result nor a composite result on the form, the store is as it
\* was before.
Thm_C28_guardar_con_guardias ==
    (/\ ult_op = "guardar_evaluacion"
     /\ \/ paciente_actual = SinPaciente
        \/ ~edad_desde_limpieza
        \/ FormularioSinResultados)
    => /\ BD(pacientes, evaluaciones) = ant_bd
       /\ ult_bd = SinLlamadaBD

\* guardar_evaluacion was pressed with a patient selected and results on the
\* form, the age cleared since
Wit_C28_guardar_con_guardias ==
    /\ ult_op = "guardar_evaluacion"
    /\ paciente_actual # SinPaciente
    /\ ~edad_desde_limpieza
    /\ ~FormularioSinResultados

\* guardar_evaluacion was pressed with results on the form and an age
\* calculated, no patient selected
Wit_C28_sin_paciente ==
    /\ ult_op = "guardar_evaluacion"
    /\ paciente_actual = SinPaciente
    /\ edad_desde_limpieza
    /\ ~FormularioSinResultados

\* guardar_evaluacion wrote a row
Wit_C28_guardada ==
    /\ ult_op = "guardar_evaluacion"
    /\ ult_bd.op = "agregar_evaluacion"
    /\ ult_bd.ret # "None"
====
